---- MODULE Spec2Model ----
(***************************************************************************)
(* DebridMovieMapper: the debrid client's retry loop and adaptive rate     *)
(* limiter (src/src/rd_client.rs) and the repair manager's per-torrent     *)
(* health state machine (src/src/repair.rs).                               *)
(*                                                                         *)
(* Time.  The code only ever compares an Instant with the current instant  *)
(* (elapsed() < 30 s, next_allowed < now, ...), so every Instant is kept   *)
(* relative to "now", in milliseconds: next_allowed is the distance of the *)
(* limiter's next_allowed ahead of now (0 when it lies in the past), and   *)
(* last_check / last_repair_trigger are the elapsed time since the stamp,  *)
(* saturated at Horizon, beyond which no comparison can tell ages apart.   *)
(***************************************************************************)
EXTENDS Integers, Sequences, FiniteSets, TLC

VARIABLES
    \* ---- AdaptiveRateLimiter (RateLimiterState) ----
    interval_ms,      \* current interval between requests, ms
    next_allowed,     \* ms from now until the next request is allowed
    \* ---- one logical call of fetch_with_retry ----
    f_pc,             \* "idle" | "token" | "send" | "done"
    f_site,           \* the call site (fixes terminal_statuses and T)
    attempt,          \* loop variable, 1..max_attempts
    last_error,       \* Option<reqwest::Error>: "None" or the error kind
    f_requests,       \* HTTP requests sent by this call
    f_tokens,         \* rate-limiter tokens reserved by this call
    f_result,         \* what the caller got: "None" | "Ok" | "Err" | "Panic"
    f_err,            \* the error handed to the caller, "None" if none
    tokens,           \* callers inside wait_for_token and the last reservation
    \* ---- RepairManager ----
    health_status,    \* HashMap<String, TorrentHealth>
    remote,           \* torrent ids present in the debrid account
    next_id,          \* next id the remote hands out on addMagnet
    repair,           \* per task: the running repair_torrent call
    hc,               \* the running check_torrent_health call
    last_op,          \* the operation that took the last step
    \* ---- run_scan_loop (src/src/tasks.rs) ----
    seen_torrents,    \* ids of the in-memory HashMap of identifications
    db,               \* ids of the persistent MATCHES_TABLE
    vfs,              \* the installed tree: ids of the torrents it was built from
    scan,             \* the scan task: its position and locals
    \* ---- WebDAV adapter ----
    vfs_readers,      \* read guards held on the vfs RwLock
    lookup,           \* the running find_node call
    reads,            \* per reader: the running stream-file read
    spawned,          \* ids for which a read has spawned repair_by_id
    \* ---- JellyfinClient ----
    notify,           \* the running notify_changes call
    \* ---- RealDebridClient::get_torrents ----
    gt,               \* the running get_torrents call
    \* ---- RealDebridClient::unrestrict_cache ----
    cache,            \* link -> age of the entry (cached_at.elapsed()), ms
    cache_op,         \* the last operation on the cache and what it dropped
    \* ---- WebDAV adapter, the operation around find_node ----
    dav,              \* the last adapter operation and its result
    \* ---- functions applied to given arguments ----
    pure              \* the function, its arguments and, once applied, its result

fetchVars  == <<interval_ms, next_allowed, f_pc, f_site, attempt, last_error,
                f_requests, f_tokens, f_result, f_err, tokens>>
repairVars == <<health_status, remote, next_id, repair, hc, last_op>>
scanVars   == <<seen_torrents, db, vfs, scan>>
davVars    == <<vfs_readers, lookup, reads, spawned>>
\* the components that stand apart from the scan task, the adapter and the
\* notifier
auxVars    == <<gt, cache, cache_op, dav, pure>>
extVars    == <<seen_torrents, db, vfs, scan, vfs_readers, lookup, reads, spawned, notify,
                auxVars>>
vars       == <<interval_ms, next_allowed, f_pc, f_site, attempt, last_error,
                f_requests, f_tokens, f_result, f_err, tokens,
                health_status, remote, next_id, repair, hc, last_op,
                seen_torrents, db, vfs, scan, vfs_readers, lookup, reads, spawned,
                notify, gt, cache, cache_op, dav, pure>>

Max(a, b) == IF a >= b THEN a ELSE b
Min(a, b) == IF a <= b THEN a ELSE b

(***************************************************************************)
(* Constants of rd_client.rs                                               *)
(***************************************************************************)
MIN_INTERVAL_MS == 100
MAX_INTERVAL_MS == 2000
RECOVERY_MS == 10
MAX_RETRY_AFTER_SECS == 300
max_attempts == 10

(***************************************************************************)
(* What the remote can answer to one request.                              *)
(***************************************************************************)
Statuses == {200, 204, 404, 429, 500, 502, 503, 504}
\* body of a 2xx answer: decodes as T, is empty, does not decode as T,
\* or cannot be read at all
Bodies == {"value", "empty", "garbage", "read_error"}
\* Retry-After header: absent (NoRetryAfter), or seconds (400 is above the cap)
NoRetryAfter == 0 - 1
RetryAfterValues == {NoRetryAfter, 0, 400}
\* time a request takes on the wire, ms
Latencies == {0, 5000}
\* the jitter drawn by wait_for_retry, ms (gen_range(0..1000))
Jitters == {0, 999}

\* the answers the remote can give: a body matters for 2xx only, the
\* Retry-After header for the other statuses, the jitter where it is drawn
Responses ==
    {[status |-> s, retry_after |-> NoRetryAfter, body |-> b, jitter |-> 0] :
        s \in {200, 204}, b \in Bodies}
    \cup {[status |-> s, retry_after |-> ra, body |-> "empty", jitter |-> 0] :
        s \in Statuses \ {200, 204}, ra \in RetryAfterValues}
    \cup {[status |-> s, retry_after |-> NoRetryAfter, body |-> "empty", jitter |-> j] :
        s \in {502, 503, 504}, j \in Jitters}

CallSites == {"get_torrents", "get_torrent_info", "unrestrict_link",
              "add_magnet", "select_files", "delete_torrent"}

\* (mutant) no call site passes a terminal status
TerminalStatuses_none(site) == {}

\* the terminal_statuses argument each call site passes
TerminalStatuses(site) ==
    CASE site = "get_torrent_info" -> {404}
      [] site = "unrestrict_link"  -> {503}
      [] site = "delete_torrent"   -> {404}
      [] OTHER                     -> {}

\* serde_json::from_str::<T>("[]") succeeds for Vec<Torrent> and
\* serde_json::Value, fails for the struct types
EmptyListDecodes(site) == site \in {"get_torrents", "select_files", "delete_torrent"}

should_retry_status(status) == status \in {429, 503, 502, 504}

\* resp.error_for_status() is Err for 4xx and 5xx
IsErrorStatus(status) == status >= 400

\* 2u64.pow(n)
Pow2(n) == 2 ^ n

\* next_allowed after d ms have passed
Elapse(na, d) == Max(0, na - d)

(***************************************************************************)
(* AdaptiveRateLimiter                                                     *)
(***************************************************************************)
\* (mutant) the recovery forgets the floor
record_success_noFloor(iv) == Max(0, iv - RECOVERY_MS)

\* record_success: interval_ms.saturating_sub(RECOVERY_MS).max(MIN_INTERVAL_MS)
record_success(iv) == Max(Max(0, iv - RECOVERY_MS), MIN_INTERVAL_MS)

\* (mutant) the throttle grows the interval by half only
record_throttle_interval_half(iv) == Min(iv + iv \div 2, MAX_INTERVAL_MS)

\* record_throttle, the interval
record_throttle_interval(iv) == Min(iv * 2, MAX_INTERVAL_MS)

\* record_throttle, next_allowed
record_throttle_next(na, retry_after) ==
    IF retry_after = NoRetryAfter THEN na
    ELSE LET retry_deadline == Min(retry_after, MAX_RETRY_AFTER_SECS) * 1000
         IN  IF retry_deadline > na THEN retry_deadline ELSE na

\* wait_for_token: reserve the slot at deadline = max(next_allowed, now), push
\* next_allowed one interval past it, sleep until the deadline.  After the
\* sleep the deadline is "now", so next_allowed lies one interval ahead.
wait_for_token_next(na, iv) == Elapse(Max(na, 0) + iv, Max(na, 0))

\* the sleep of wait_for_retry, ms
wait_for_retry_delay(retry_after, att, jitter) ==
    IF retry_after # NoRetryAfter THEN Min(retry_after, MAX_RETRY_AFTER_SECS) * 1000
    ELSE IF att < max_attempts THEN Min(Pow2(att), 30) * 1000 + jitter
    ELSE 0

\* the variables of the logical call, which the limiter's methods leave alone
callVars == <<f_pc, f_site, attempt, last_error, f_requests, f_tokens, f_result, f_err>>

\* limiter.record_success().await, called on the limiter itself
LimRecordSuccess ==
    /\ interval_ms' = record_success(interval_ms)
    /\ UNCHANGED <<next_allowed, callVars, tokens, repairVars, extVars>>

\* limiter.record_throttle(retry_after).await, called on the limiter itself
LimRecordThrottle(retry_after) ==
    /\ interval_ms' = record_throttle_interval(interval_ms)
    /\ next_allowed' = record_throttle_next(next_allowed, retry_after)
    /\ UNCHANGED <<callVars, tokens, repairVars, extVars>>

\* limiter.wait_for_token().await, called on the limiter itself
LimWaitForToken ==
    /\ next_allowed' = wait_for_token_next(next_allowed, interval_ms)
    /\ UNCHANGED <<interval_ms, callVars, tokens, repairVars, extVars>>

\* time passes between two calls on the limiter
LimElapse(d) ==
    /\ next_allowed > 0
    /\ next_allowed' = Elapse(next_allowed, d)
    /\ UNCHANGED <<interval_ms, callVars, tokens, repairVars, extVars>>

(***************************************************************************)
(* Concurrent callers of wait_for_token.  The locked section reserves the  *)
(* slot and returns the deadline; the caller then sleeps until it, outside *)
(* the lock.  tokens.waiting holds the deadlines of the callers that sleep, *)
(* in the order of their reservations, as ms from now (0 once reached);    *)
(* tokens.last is the latest reservation: its deadline, as ms from now     *)
(* (negative in the past, down to -PastHorizon) and the interval that was  *)
(* in force when it was made; tokens.records counts the record_success and  *)
(* record_throttle calls made so far.                                      *)
(***************************************************************************)
MaxWaiting == 2            \* callers inside wait_for_token at a time
MaxRecords == 3            \* record_success and record_throttle calls in one run
\* beyond this age no comparison with an interval can tell deadlines apart
PastHorizon == MAX_INTERVAL_MS
\* time that passes between two steps of the callers, ms
TokenSteps == {5000}

NoTokens == [waiting |-> << >>, records |-> 0,
             last |-> [reserved |-> FALSE, deadline |-> 0, interval |-> 0]]

\* (mutant) the reservation does not push next_allowed
reserve_next_noAdvance(na, iv) == Max(na, 0)

\* wait_for_token, the locked section: the deadline it returns ...
reserve_deadline(na) == Max(na, 0)
\* ... and the next_allowed it leaves
reserve_next(na, iv) == Max(na, 0) + iv

RemoveAt(seq, i) == [j \in 1..(Len(seq) - 1) |-> IF j < i THEN seq[j] ELSE seq[j + 1]]

\* a caller runs the locked section of wait_for_token
TokReserve ==
    /\ Len(tokens.waiting) < MaxWaiting
    /\ next_allowed' = reserve_next(next_allowed, interval_ms)
    /\ tokens' = [waiting |-> Append(tokens.waiting, reserve_deadline(next_allowed)),
                  records |-> tokens.records,
                  last |-> [reserved |-> TRUE,
                            deadline |-> reserve_deadline(next_allowed),
                            interval |-> interval_ms]]
    /\ UNCHANGED <<interval_ms, callVars, repairVars, extVars>>

\* sleep_until(deadline) returns for a caller whose deadline is reached
TokRelease(i) ==
    /\ i \in 1..Len(tokens.waiting)
    /\ tokens.waiting[i] = 0
    /\ tokens' = [tokens EXCEPT !.waiting = RemoveAt(@, i)]
    /\ UNCHANGED <<interval_ms, next_allowed, callVars, repairVars, extVars>>

\* d ms pass
TokElapse(d) ==
    /\ d > 0
    /\ next_allowed' = Elapse(next_allowed, d)
    /\ tokens' = [waiting |-> [j \in 1..Len(tokens.waiting) |->
                                 Max(0, tokens.waiting[j] - d)],
                  records |-> tokens.records,
                  last |-> IF tokens.last.reserved
                           THEN [tokens.last EXCEPT
                                    !.deadline = Max(@ - d, 0 - PastHorizon)]
                           ELSE tokens.last]
    /\ <<next_allowed', tokens'>> # <<next_allowed, tokens>>
    /\ UNCHANGED <<interval_ms, callVars, repairVars, extVars>>

\* record_success().await of a request that got its answer
TokRecordSuccess ==
    /\ tokens.records < MaxRecords
    /\ interval_ms' = record_success(interval_ms)
    /\ tokens' = [tokens EXCEPT !.records = @ + 1]
    /\ UNCHANGED <<next_allowed, callVars, repairVars, extVars>>

\* record_throttle(retry_after).await of a request that was answered 429
TokRecordThrottle(retry_after) ==
    /\ tokens.records < MaxRecords
    /\ interval_ms' = record_throttle_interval(interval_ms)
    /\ next_allowed' = record_throttle_next(next_allowed, retry_after)
    /\ tokens' = [tokens EXCEPT !.records = @ + 1]
    /\ UNCHANGED <<callVars, repairVars, extVars>>

(***************************************************************************)
(* fetch_with_retry                                                        *)
(***************************************************************************)
\* (mutant) the loop runs one attempt too many: 0..=max_attempts
HasNextAttempt_inclusive(att) == att <= max_attempts

\* for attempt in 1..=max_attempts
HasNextAttempt(att) == att < max_attempts

\* the caller gets a result
Return(kind, err) ==
    /\ f_pc' = "done"
    /\ f_result' = kind
    /\ f_err' = err
    /\ UNCHANGED attempt

\* end of one loop iteration with the given last_error: next attempt, or the
\* code after the loop
NextIteration(le) ==
    /\ last_error' = le
    /\ IF HasNextAttempt(attempt)
       THEN /\ attempt' = attempt + 1
            /\ f_pc' = "token"
            /\ UNCHANGED <<f_result, f_err>>
       ELSE /\ f_pc' = "done"
            /\ UNCHANGED attempt
            /\ IF le # "None"
               THEN f_result' = "Err" /\ f_err' = le
               ELSE f_result' = "Panic" /\ f_err' = "None"   \* unreachable!()

\* a caller starts a logical call
FetchCall(site) ==
    /\ f_pc \in {"idle", "done"}
    /\ f_pc' = "token"
    /\ f_site' = site
    /\ attempt' = 1
    /\ last_error' = "None"
    /\ f_requests' = 0
    /\ f_tokens' = 0
    /\ f_result' = "None"
    /\ f_err' = "None"
    /\ UNCHANGED <<interval_ms, next_allowed>>
    /\ UNCHANGED <<tokens, repairVars, extVars>>

\* self.rate_limiter.wait_for_token().await
FetchWaitForToken ==
    /\ f_pc = "token"
    /\ f_pc' = "send"
    /\ f_tokens' = f_tokens + 1
    /\ next_allowed' = wait_for_token_next(next_allowed, interval_ms)
    /\ UNCHANGED <<interval_ms, f_site, attempt, last_error, f_requests, f_result, f_err>>
    /\ UNCHANGED <<tokens, repairVars, extVars>>

\* make_request().send().await fails (connect, TLS, timeout)
FetchSendError(lat) ==
    /\ f_pc = "send"
    /\ f_requests' = f_requests + 1
    /\ next_allowed' = Elapse(next_allowed, lat)
    /\ NextIteration("Transport")
    /\ UNCHANGED <<interval_ms, f_site, f_tokens>>
    /\ UNCHANGED <<tokens, repairVars, extVars>>

\* make_request().send().await answers with a status, headers and a body
FetchSendResponse(status, retry_after, body, lat, jitter) ==
    /\ f_pc = "send"
    /\ f_requests' = f_requests + 1
    /\ UNCHANGED <<f_site, f_tokens>>
    /\ UNCHANGED <<tokens, repairVars, extVars>>
    /\ IF status \in TerminalStatuses(f_site)
       THEN /\ Return("Err", "Status")
            /\ next_allowed' = Elapse(next_allowed, lat)
            /\ UNCHANGED <<interval_ms, last_error>>
       ELSE IF status = 429
       THEN /\ interval_ms' = record_throttle_interval(interval_ms)
            /\ next_allowed' = record_throttle_next(Elapse(next_allowed, lat), retry_after)
            /\ NextIteration(last_error)
       ELSE IF should_retry_status(status)
       THEN /\ next_allowed' = Elapse(Elapse(next_allowed, lat),
                                      wait_for_retry_delay(retry_after, attempt, jitter))
            /\ NextIteration(last_error)
            /\ UNCHANGED interval_ms
       ELSE IF IsErrorStatus(status)
       THEN /\ next_allowed' = Elapse(next_allowed, lat)
            /\ NextIteration("Status")
            /\ UNCHANGED interval_ms
       ELSE IF body = "read_error"
       THEN /\ Return("Err", "Body")                      \* resp.text().await?
            /\ next_allowed' = Elapse(next_allowed, lat)
            /\ UNCHANGED <<interval_ms, last_error>>
       ELSE IF body = "empty" \/ status = 204
       THEN /\ next_allowed' = Elapse(next_allowed, lat)
            /\ IF EmptyListDecodes(f_site)
               THEN /\ interval_ms' = record_success(interval_ms)
                    /\ Return("Ok", "None")
                    /\ UNCHANGED last_error
               ELSE /\ NextIteration(last_error)
                    /\ UNCHANGED interval_ms
       ELSE IF body = "value"
       THEN /\ next_allowed' = Elapse(next_allowed, lat)
            /\ interval_ms' = record_success(interval_ms)
            /\ Return("Ok", "None")
            /\ UNCHANGED last_error
       ELSE /\ next_allowed' = Elapse(next_allowed, lat)  \* decode error: logged only
            /\ NextIteration(last_error)
            /\ UNCHANGED interval_ms

(***************************************************************************)
(* RepairManager (src/src/repair.rs)                                       *)
(***************************************************************************)
\* bounds of the model
MaxTorrentId == 2          \* ids the remote can hand out in one run
MaxCheckList == 2          \* torrents passed to one check_torrent_health call

InitialTorrents == {1}
TorrentIds == 1..MaxTorrentId

\* time that passes between two steps, ms
TickSteps == {300000}
REPAIR_RATE_LIMIT_MS == 30 * 1000     \* last_trigger.elapsed().as_secs() < 30
RECHECK_MS == 300 * 1000            \* last_check.elapsed().as_secs() < 300
Horizon == RECHECK_MS
NoTrigger == 0 - 1                \* last_repair_trigger: None

\* TorrentInfo of every torrent of the account: a repaired torrent is the
\* same magnet, so all of them carry the same files and links
TorrentFiles == << [id |-> 1, path |-> "a.mkv", selected |-> 1],
                   [id |-> 2, path |-> "b.nfo", selected |-> 0] >>
TorrentLinks == << "l1" >>

\* files[] the remote reports for the re-added torrent
NewFileLists == { << >>,
                  << [id |-> 1, path |-> "a.mkv", selected |-> 0] >>,
                  << [id |-> 1, path |-> "b.nfo", selected |-> 0] >> }

\* outcome of one logical remote call, as fetch_with_retry hands it over
RemoteOutcomes == {"Ok", "Err", "Panic"}

HasEntry(hm, id) == id \in DOMAIN hm

\* HashMap::insert / HashMap::remove
MapInsert(hm, id, h) == [k \in (DOMAIN hm) \cup {id} |-> IF k = id THEN h ELSE hm[k]]
MapRemove(hm, id) == [k \in (DOMAIN hm) \ {id} |-> hm[k]]

\* (mutant) a torrent under repair is not hidden
should_hide_torrent_ignoresRepairing(hm, id) ==
    IF HasEntry(hm, id)
    THEN hm[id].state \in {"Broken", "Failed"}
    ELSE FALSE

\* (mutant) a permanently failed torrent is not hidden
should_hide_torrent_ignoresFailed(hm, id) ==
    IF HasEntry(hm, id)
    THEN hm[id].state \in {"Broken", "Repairing"}
    ELSE FALSE

\* ---- should_hide_torrent ----
should_hide_torrent(hm, id) ==
    IF HasEntry(hm, id)
    THEN hm[id].state \in {"Broken", "Repairing", "Failed"}
    ELSE FALSE

\* (mutant) mark_broken forgets the previous repair_attempts
mark_broken_entry_resets(hm, id, failed_link) ==
    [torrent_id |-> id, state |-> "Broken", failed_links |-> {failed_link},
     last_check |-> 0, repair_attempts |-> 0,
     last_repair_trigger |-> NoTrigger]

\* ---- mark_broken: the entry it inserts ----
mark_broken_entry(hm, id, failed_link) ==
    LET previous_attempts == IF HasEntry(hm, id) THEN hm[id].repair_attempts ELSE 0
    IN  [torrent_id |-> id, state |-> "Broken", failed_links |-> {failed_link},
         last_check |-> 0, repair_attempts |-> previous_attempts,
         last_repair_trigger |-> NoTrigger]

\* ---- check_torrent_health, first loop ----
should_check(hm, id) ==
    IF HasEntry(hm, id)
    THEN IF hm[id].state \in {"Checking", "Repairing"} THEN FALSE
         ELSE IF hm[id].last_check < RECHECK_MS /\ hm[id].state = "Healthy" THEN FALSE
         ELSE TRUE
    ELSE TRUE

\* (mutant) the Checking entry forgets the previous repair_attempts
checking_entry_resets(hm, id) ==
    [torrent_id |-> id, state |-> "Checking", failed_links |-> {},
     last_check |-> 0, repair_attempts |-> 0,
     last_repair_trigger |-> NoTrigger]

checking_entry(hm, id) ==
    LET previous_attempts == IF HasEntry(hm, id) THEN hm[id].repair_attempts ELSE 0
    IN  [torrent_id |-> id, state |-> "Checking", failed_links |-> {},
         last_check |-> 0, repair_attempts |-> previous_attempts,
         last_repair_trigger |-> NoTrigger]

RECURSIVE MarkChecking(_, _)
MarkChecking(hm, torrents) ==
    IF torrents = << >> THEN hm
    ELSE LET id == Head(torrents)
         IN  MarkChecking(IF should_check(hm, id)
                          THEN MapInsert(hm, id, checking_entry(hm, id))
                          ELSE hm,
                          Tail(torrents))

\* the links sampled for one torrent: first, middle and last
links_to_check(links) ==
    LET n == Len(links)
        Sampled == {i \in 1..n : (i - 1) = 0 \/ (i - 1) = n \div 2 \/ (i - 1) = Max(n - 1, 0)}
    IN  {links[i] : i \in Sampled}

\* check_torrent_health, the verdict written for one torrent
health_verdict(hm, id, failed) ==
    IF HasEntry(hm, id)
    THEN IF failed # {}
         THEN [hm EXCEPT ![id].state = "Broken", ![id].failed_links = failed,
                         ![id].last_check = 0]
         ELSE [hm EXCEPT ![id].state = "Healthy", ![id].failed_links = {},
                         ![id].last_check = 0]
    ELSE hm

\* ---- repair_torrent ----
\* (mutant) the refusal check does not look at Failed
repair_refusal_ignoresFailed(hm, id) ==
    IF HasEntry(hm, id)
    THEN IF hm[id].state = "Repairing" THEN "Repair already in progress"
         ELSE IF hm[id].last_repair_trigger # NoTrigger
                 /\ hm[id].last_repair_trigger < REPAIR_RATE_LIMIT_MS
              THEN "Repair rate limited"
         ELSE "None"
    ELSE "None"

\* the first, read-locked check: the error it returns, or "None"
repair_refusal(hm, id) ==
    IF HasEntry(hm, id)
    THEN IF hm[id].state = "Failed" THEN "Torrent permanently failed"
         ELSE IF hm[id].state = "Repairing" THEN "Repair already in progress"
         ELSE IF hm[id].last_repair_trigger # NoTrigger
                 /\ hm[id].last_repair_trigger < REPAIR_RATE_LIMIT_MS
              THEN "Repair rate limited"
         ELSE "None"
    ELSE "None"

\* (mutant) off by one: > 3
attempts_exhausted_offByOne(h) == h.repair_attempts > 3

\* health.repair_attempts >= 3
attempts_exhausted(h) == h.repair_attempts >= 3

\* the write-locked section that starts the attempt: <<map, error or "None">>
repair_begin(hm, id) ==
    IF HasEntry(hm, id)
    THEN IF attempts_exhausted(hm[id])
         THEN << [hm EXCEPT ![id].state = "Failed"], "Maximum repair attempts exceeded" >>
         ELSE IF hm[id].state = "Repairing"
         THEN << hm, "Repair already in progress" >>
         ELSE << [hm EXCEPT ![id].state = "Repairing",
                            ![id].repair_attempts = @ + 1,
                            ![id].last_repair_trigger = 0], "None" >>
    ELSE << MapInsert(hm, id, [torrent_id |-> id, state |-> "Repairing",
                               failed_links |-> {}, last_check |-> 0,
                               repair_attempts |-> 1, last_repair_trigger |-> 0]),
            "None" >>

\* (mutant) a failed attempt leaves the torrent Broken, to be retried
repair_failed_retryable(hm, id) ==
    IF HasEntry(hm, id) THEN [hm EXCEPT ![id].state = "Broken"] ELSE hm

\* (mutant) a failure branch forgets to update the health map
repair_failed_skipped(hm, id) == hm

\* the failure branches: if let Some(health) = get_mut(id) { state = Failed }
repair_failed(hm, id) ==
    IF HasEntry(hm, id) THEN [hm EXCEPT ![id].state = "Failed"] ELSE hm

\* (mutant) the success branch keeps the old entry
repair_succeeded_keepsOld(hm, old_id, new_id) ==
    MapInsert(hm, new_id,
              [torrent_id |-> new_id, state |-> "Healthy", failed_links |-> {},
               last_check |-> 0, repair_attempts |-> 0,
               last_repair_trigger |-> NoTrigger])

\* the success branch: remove the old entry, insert the new one as Healthy
repair_succeeded(hm, old_id, new_id) ==
    MapInsert(MapRemove(hm, old_id), new_id,
              [torrent_id |-> new_id, state |-> "Healthy", failed_links |-> {},
               last_check |-> 0, repair_attempts |-> 0,
               last_repair_trigger |-> NoTrigger])

\* ids of the new torrent's files that match a selected original file by path
selected_file_ids(original_files, new_files) ==
    LET Selected(f) == f.selected = 1
        Matches(f) == \E j \in 1..Len(new_files) : new_files[j].path = f.path
        FirstMatch(f) == new_files[CHOOSE j \in 1..Len(new_files) :
                            /\ new_files[j].path = f.path
                            /\ \A k \in 1..(j - 1) : new_files[k].path # f.path].id
        kept == SelectSeq(SelectSeq(original_files, Selected), Matches)
    IN  [i \in 1..Len(kept) |-> FirstMatch(kept[i])]

\* a task that is not inside repair_torrent; calls counts the remote calls
\* the running call has issued
IdleTask == [pc |-> "idle", id |-> 0, new_id |-> 0, file_ids |-> << >>, calls |-> 0]
IdleCheck == [pc |-> "idle", torrents |-> << >>, broken |-> << >>]

\* what the last step was: a call of mark_broken, a return of repair_torrent
\* (with the error string or "Ok", the place it returned from and the remote
\* calls it had issued), or anything else
Other == [op |-> "other", id |-> 0, ret |-> "None", at |-> "None", calls |-> 0]
Marked(id) == [op |-> "mark_broken", id |-> id, ret |-> "None", at |-> "None", calls |-> 0]
Returned(task, ret, ncalls) ==
    [op |-> "repair_torrent", id |-> task.id, ret |-> ret, at |-> task.pc, calls |-> ncalls]

\* ids the program can know of: every torrent the remote ever listed
KnownIds == 1..(next_id - 1)

\* the age of every stamp after d more ms
Aged(hm, d) ==
    [k \in DOMAIN hm |->
        [hm[k] EXCEPT !.last_check = Min(@ + d, Horizon),
                      !.last_repair_trigger =
                          IF @ = NoTrigger THEN NoTrigger ELSE Min(@ + d, Horizon)]]

Tick(d) ==
    /\ health_status' = Aged(health_status, d)
    /\ health_status' # health_status
    /\ last_op' = Other
    /\ UNCHANGED <<remote, next_id, repair, hc>>
    /\ UNCHANGED <<fetchVars, extVars>>

\* mark_broken(torrent_id, failed_link)
MarkBroken(id, failed_link) ==
    /\ health_status' = MapInsert(health_status, id,
                                  mark_broken_entry(health_status, id, failed_link))
    /\ last_op' = Marked(id)
    /\ UNCHANGED <<remote, next_id, repair, hc>>
    /\ UNCHANGED <<fetchVars, extVars>>

\* check_torrent_health(torrents): the write-locked first loop
CheckCall(torrents) ==
    /\ hc.pc = "idle"
    /\ health_status' = MarkChecking(health_status, torrents)
    /\ hc' = [pc |-> "read", torrents |-> torrents, broken |-> << >>]
    /\ last_op' = Other
    /\ UNCHANGED <<remote, next_id, repair>>
    /\ UNCHANGED <<fetchVars, extVars>>

\* second loop, the read-locked test "skip if not in checking state" for the
\* next torrent (hc.torrents holds those still to be visited); past the last
\* torrent the call returns broken_torrent_ids
CheckRead ==
    /\ hc.pc = "read"
    /\ IF hc.torrents = << >>
       THEN hc' = IdleCheck
       ELSE LET id == Head(hc.torrents)
            IN  IF HasEntry(health_status, id) /\ health_status[id].state # "Checking"
                THEN hc' = [hc EXCEPT !.torrents = Tail(@)]
                ELSE hc' = [hc EXCEPT !.pc = "probe"]
    /\ last_op' = Other
    /\ UNCHANGED <<health_status, remote, next_id, repair>>
    /\ UNCHANGED <<fetchVars, extVars>>

\* the sampled links have been probed (failed: those whose probe failed) and
\* the verdict is written under the write lock
CheckWrite(failed) ==
    /\ hc.pc = "probe"
    /\ failed \subseteq links_to_check(TorrentLinks)
    /\ LET id == Head(hc.torrents)
       IN  /\ health_status' = health_verdict(health_status, id, failed)
           /\ hc' = [hc EXCEPT !.pc = "read", !.torrents = Tail(@),
                               !.broken = IF failed # {} THEN Append(@, id) ELSE @]
    /\ last_op' = Other
    /\ UNCHANGED <<remote, next_id, repair>>
    /\ UNCHANGED <<fetchVars, extVars>>

\* repair_torrent(torrent_info) is called: the read-locked refusal check
RepairCall(t, id) ==
    /\ repair[t].pc = "idle"
    /\ LET refusal == repair_refusal(health_status, id)
           called == [IdleTask EXCEPT !.pc = "call", !.id = id]
       IN  IF refusal # "None"
           THEN /\ last_op' = Returned(called, refusal, 0)
                /\ UNCHANGED repair
           ELSE /\ last_op' = Other
                /\ repair' = [repair EXCEPT ![t] = [called EXCEPT !.pc = "lock"]]
    /\ UNCHANGED <<health_status, remote, next_id, hc>>
    /\ UNCHANGED <<fetchVars, extVars>>

\* the write-locked section: attempts check, double-check, mark Repairing
RepairBegin(t) ==
    /\ repair[t].pc = "lock"
    /\ LET r == repair_begin(health_status, repair[t].id)
       IN  /\ health_status' = r[1]
           /\ IF r[2] # "None"
              THEN /\ repair' = [repair EXCEPT ![t] = IdleTask]
                   /\ last_op' = Returned(repair[t], r[2], 0)
              ELSE /\ repair' = [repair EXCEPT ![t].pc = "add_magnet"]
                   /\ last_op' = Other
    /\ UNCHANGED <<remote, next_id, hc>>
    /\ UNCHANGED <<fetchVars, extVars>>

\* a remote call of the repair panicked inside fetch_with_retry: the task
\* unwinds, no lock is held, the health map is left as it is
RepairPanic(t) ==
    /\ repair' = [repair EXCEPT ![t] = IdleTask]
    /\ last_op' = Returned(repair[t], "Panic", repair[t].calls + 1)
    /\ UNCHANGED <<health_status, remote, next_id>>

\* a failure branch: the old entry becomes Failed, the call returns err
RepairFail(t, err) ==
    /\ health_status' = repair_failed(health_status, repair[t].id)
    /\ repair' = [repair EXCEPT ![t] = IdleTask]
    /\ last_op' = Returned(repair[t], err, repair[t].calls + 1)

\* Step 1: add_magnet
RepairAddMagnet(t, outcome) ==
    /\ repair[t].pc = "add_magnet"
    /\ CASE outcome = "Ok" ->
              /\ next_id <= MaxTorrentId
              /\ remote' = remote \cup {next_id}
              /\ next_id' = next_id + 1
              /\ repair' = [repair EXCEPT ![t] = [@ EXCEPT !.pc = "get_info",
                                !.new_id = next_id, !.calls = @ + 1]]
              /\ last_op' = Other
              /\ UNCHANGED health_status
         [] outcome = "Err" ->
              /\ RepairFail(t, "Failed to add magnet")
              /\ UNCHANGED <<remote, next_id>>
         [] OTHER -> RepairPanic(t)
    /\ UNCHANGED hc
    /\ UNCHANGED <<fetchVars, extVars>>

\* Step 3 and the matching of step 4: get_torrent_info(new id), then pair the
\* selected files by path
RepairGetInfo(t, outcome, new_files) ==
    /\ repair[t].pc = "get_info"
    /\ CASE outcome = "Ok" ->
              LET ids == selected_file_ids(TorrentFiles, new_files)
              IN  IF ids # << >>
                  THEN /\ repair' = [repair EXCEPT ![t] = [@ EXCEPT !.pc = "select",
                                        !.file_ids = ids, !.calls = @ + 1]]
                       /\ last_op' = Other
                       /\ UNCHANGED health_status
                  ELSE RepairFail(t, "No matching files found")
         [] outcome = "Err" -> RepairFail(t, "Failed to get torrent info")
         [] OTHER -> RepairPanic(t)
    /\ UNCHANGED <<remote, next_id, hc>>
    /\ UNCHANGED <<fetchVars, extVars>>

\* (mutant) the old torrent is deleted before the selection is known to have
\* succeeded
RepairSelectFiles_deletesFirst(t, outcome) ==
    /\ repair[t].pc = "select"
    /\ remote' = remote \ {repair[t].id}
    /\ CASE outcome = "Ok" ->
              /\ repair' = [repair EXCEPT ![t] = [@ EXCEPT !.pc = "delete",
                                !.calls = @ + 1]]
              /\ last_op' = Other
              /\ UNCHANGED health_status
         [] outcome = "Err" -> RepairFail(t, "Failed to select files")
         [] OTHER -> /\ repair' = [repair EXCEPT ![t] = IdleTask]
                     /\ last_op' = Returned(repair[t], "Panic", repair[t].calls + 1)
                     /\ UNCHANGED health_status
    /\ UNCHANGED <<next_id, hc>>
    /\ UNCHANGED <<fetchVars, extVars>>

\* Step 4: select_files(new id, ids)
RepairSelectFiles(t, outcome) ==
    /\ repair[t].pc = "select"
    /\ CASE outcome = "Ok" ->
              /\ repair' = [repair EXCEPT ![t] = [@ EXCEPT !.pc = "delete",
                                !.calls = @ + 1]]
              /\ last_op' = Other
              /\ UNCHANGED health_status
         [] outcome = "Err" -> RepairFail(t, "Failed to select files")
         [] OTHER -> RepairPanic(t)
    /\ UNCHANGED <<remote, next_id, hc>>
    /\ UNCHANGED <<fetchVars, extVars>>

\* Step 5 and the success branch: delete_torrent(old id), whose failure is
\* only logged, then the health map is updated and the call returns Ok
RepairDelete(t, outcome) ==
    /\ repair[t].pc = "delete"
    /\ CASE outcome = "Ok" ->
              /\ remote' = remote \ {repair[t].id}
              /\ health_status' = repair_succeeded(health_status, repair[t].id,
                                                   repair[t].new_id)
              /\ repair' = [repair EXCEPT ![t] = IdleTask]
              /\ last_op' = Returned(repair[t], "Ok", repair[t].calls + 1)
         [] outcome = "Err" ->
              /\ UNCHANGED remote
              /\ health_status' = repair_succeeded(health_status, repair[t].id,
                                                   repair[t].new_id)
              /\ repair' = [repair EXCEPT ![t] = IdleTask]
              /\ last_op' = Returned(repair[t], "Ok", repair[t].calls + 1)
         [] OTHER -> RepairPanic(t) /\ UNCHANGED remote
    /\ UNCHANGED <<next_id, hc>>
    /\ UNCHANGED <<fetchVars, extVars>>

(***************************************************************************)
(* run_scan_loop and update_vfs (src/src/tasks.rs)                         *)
(***************************************************************************)
\* ids in the order of a listing
RECURSIVE Ascending(_)
Ascending(ids) ==
    IF ids = {} THEN << >>
    ELSE LET m == CHOOSE x \in ids : \A y \in ids : x <= y
         IN  <<m>> \o Ascending(ids \ {m})

SeqRange(seq) == {seq[i] : i \in 1..Len(seq)}

\* what get_torrents can hand over for the account's torrents: every page, or
\* the pages gathered before a page failed (never none of a non-empty account)
ListedSets(rem) ==
    IF rem = {} THEN {{}} ELSE {{x \in rem : x <= k} : k \in rem}

\* the scan task between two cycles; identified is the history of the task:
\* the ids identify_torrent has answered for
IdleScan == [pc |-> "sleep", fetched |-> FALSE, torrents |-> {}, current_data |-> << >>,
             to_identify |-> << >>, processed_new |-> 0, new_total |-> 0,
             todo |-> << >>, filtered |-> << >>, after |-> "purge", changed |-> FALSE,
             identified |-> {}]

\* (mutant) update_vfs forgets to ask the repair manager
update_vfs_keeps_all(hm, id) == TRUE

\* update_vfs: if !repair_manager.should_hide_torrent(id)
update_vfs_keeps(hm, id) == ~should_hide_torrent(hm, id)

\* update_vfs is entered: the filter loop starts over current_data
EnterUpdateVfs(sc, after) ==
    [sc EXCEPT !.pc = "filter", !.todo = sc.current_data, !.filtered = << >>,
               !.after = after]

\* the account changes behind the program's back
RemoteAdd ==
    /\ next_id <= MaxTorrentId
    /\ remote' = remote \cup {next_id}
    /\ next_id' = next_id + 1
    /\ last_op' = Other
    /\ UNCHANGED <<health_status, repair, hc>>
    /\ UNCHANGED <<fetchVars, extVars>>

RemoteRemove(id) ==
    /\ id \in remote
    /\ remote' = remote \ {id}
    /\ last_op' = Other
    /\ UNCHANGED <<health_status, next_id, repair, hc>>
    /\ UNCHANGED <<fetchVars, extVars>>

\* (mutant) a failed fetch is purged like an empty listing
seen_after_failed_fetch_purged(seen) == {}

\* Err(e) => error!(..): the seen map is left as it is
seen_after_failed_fetch(seen) == seen

\* top of the loop: get_torrents, then the partition of the downloaded
\* torrents into cached in memory, cached in the store (readable: the store
\* entries that can be read and decoded) and new
ScanFetch(outcome, listed, downloaded, readable) ==
    /\ scan.pc = "sleep"
    /\ CASE outcome = "Ok" ->
              /\ listed \in ListedSets(remote)
              /\ downloaded \subseteq listed
              /\ readable \subseteq db
              /\ LET hydrated == (downloaded \ seen_torrents) \cap readable
                     seen2 == seen_torrents \cup hydrated
                     new == Ascending(downloaded \ seen2)
                     sc == [IdleScan EXCEPT !.fetched = TRUE, !.torrents = listed,
                                            !.identified = scan.identified,
                                            !.current_data = Ascending(downloaded \cap seen2),
                                            !.to_identify = new,
                                            !.new_total = Len(new)]
                 IN  /\ seen_torrents' = seen2
                     /\ scan' = IF new = << >> THEN EnterUpdateVfs(sc, "purge")
                                ELSE [sc EXCEPT !.pc = "identify"]
         [] outcome = "Err" ->
              /\ listed = {} /\ downloaded = {} /\ readable = {}
              /\ scan' = [IdleScan EXCEPT !.identified = scan.identified]
              /\ seen_torrents' = seen_after_failed_fetch(seen_torrents)
         [] OTHER ->
              /\ listed = {} /\ downloaded = {} /\ readable = {}
              /\ scan' = [IdleScan EXCEPT !.pc = "dead", !.identified = scan.identified]
              /\ UNCHANGED seen_torrents
    /\ UNCHANGED <<db, vfs, davVars, notify, auxVars>>
    /\ UNCHANGED <<fetchVars, repairVars>>

\* one result of the identification stream: get_torrent_info, identify, the
\* write to the store (stored: whether it succeeded), then update_vfs every
\* tenth result and after the last one
ScanIdentify(outcome, stored) ==
    /\ scan.pc = "identify"
    /\ scan.to_identify # << >>
    /\ LET id == Head(scan.to_identify)
           n == scan.processed_new + 1
           sc == [scan EXCEPT !.to_identify = Tail(@), !.processed_new = n,
                              !.current_data = IF outcome = "Ok" THEN Append(@, id) ELSE @,
                              !.identified = IF outcome = "Ok" THEN @ \cup {id} ELSE @]
       IN  CASE outcome = "Panic" ->
                  /\ stored = FALSE
                  /\ scan' = [scan EXCEPT !.pc = "dead"]
                  /\ UNCHANGED <<seen_torrents, db>>
             [] OTHER ->
                  /\ (outcome = "Err") => (stored = FALSE)
                  /\ seen_torrents' = IF outcome = "Ok" THEN seen_torrents \cup {id}
                                      ELSE seen_torrents
                  /\ db' = IF stored THEN db \cup {id} ELSE db
                  /\ scan' = IF n % 10 = 0 \/ n = scan.new_total
                             THEN EnterUpdateVfs(sc, IF sc.to_identify = << >>
                                                     THEN "purge" ELSE "identify")
                             ELSE sc
    /\ UNCHANGED <<vfs, davVars, notify, auxVars>>
    /\ UNCHANGED <<fetchVars, repairVars>>

\* update_vfs, one turn of the filter loop; past the last torrent the new
\* tree is built from the torrents kept
ScanFilter ==
    /\ scan.pc = "filter"
    /\ IF scan.todo = << >>
       THEN scan' = [scan EXCEPT !.pc = "swap"]
       ELSE LET id == Head(scan.todo)
            IN  scan' = [scan EXCEPT !.todo = Tail(@),
                                     !.filtered = IF update_vfs_keeps(health_status, id)
                                                  THEN Append(@, id) ELSE @]
    /\ UNCHANGED <<seen_torrents, db, vfs, davVars, notify, auxVars>>
    /\ UNCHANGED <<fetchVars, repairVars>>

\* (mutant) the swap does not wait for the readers
write_lock_available_ignoresReaders(readers) == TRUE

\* vfs.write().await is granted when no read guard is held
write_lock_available(readers) == readers = 0

\* update_vfs: *vfs_lock = new_vfs under the write lock
ScanSwap ==
    /\ scan.pc = "swap"
    /\ write_lock_available(vfs_readers)
    /\ vfs' = SeqRange(scan.filtered)
    /\ scan' = [scan EXCEPT !.pc = scan.after,
                            !.changed = @ \/ SeqRange(scan.filtered) # vfs]
    /\ UNCHANGED <<seen_torrents, db, davVars, notify, auxVars>>
    /\ UNCHANGED <<fetchVars, repairVars>>

\* the end of a cycle: seen_torrents.retain(|id, _| current_ids.contains(id))
ScanPurge ==
    /\ scan.pc = "purge"
    /\ seen_torrents' = seen_torrents \cap scan.torrents
    /\ scan' = [scan EXCEPT !.pc = "sleep"]
    /\ UNCHANGED <<db, vfs, davVars, notify, auxVars>>
    /\ UNCHANGED <<fetchVars, repairVars>>

(***************************************************************************)
(* Path lookup of the WebDAV adapter (src/src/dav_fs.rs)                   *)
(***************************************************************************)
\* the tree built from a set of torrents: Movies/<title>/<file> for the
\* first torrent, Shows/<title>/<file> for the others
MediaDir(id) == IF id = 1 THEN "Movies" ELSE "Shows"
Title(id) == IF id = 1 THEN "T1" ELSE IF id = 2 THEN "T2" ELSE "T3"
StreamName == "video.strm"
\* the virtual file build adds to a media folder
NfoName(dir) == IF dir = "Movies" THEN "movie.nfo" ELSE "tvshow.nfo"

RootNode == [kind |-> "root", dir |-> "", id |-> 0]
NoNode == [kind |-> "none", dir |-> "", id |-> 0]

\* children.get(component) of a node of the tree, NoNode when it misses or
\* the node is no directory
Child(tree, node, component) ==
    CASE node.kind = "root" ->
            IF component \in {"Movies", "Shows"}
            THEN [kind |-> "dir", dir |-> component, id |-> 0]
            ELSE NoNode
      [] node.kind = "dir" ->
            IF \E id \in tree : MediaDir(id) = node.dir /\ Title(id) = component
            THEN [kind |-> "title", dir |-> node.dir,
                  id |-> CHOOSE id \in tree : MediaDir(id) = node.dir /\ Title(id) = component]
            ELSE NoNode
      [] node.kind = "title" ->
            IF component = StreamName
            THEN [kind |-> "file", dir |-> node.dir, id |-> node.id]
            ELSE IF component = NfoName(node.dir)
            THEN [kind |-> "virtual", dir |-> node.dir, id |-> node.id]
            ELSE NoNode
      [] OTHER -> NoNode

\* the paths a client asks for
LookupPaths ==
    {<<MediaDir(id), Title(id), StreamName>> : id \in TorrentIds}
    \cup {<<"Movies">>, <<"Shows", "T1">>}

IdleLookup == [pc |-> "idle", path |-> << >>, rest |-> << >>, current |-> RootNode,
               trees |-> {}]

\* find_node: let vfs = self.vfs.read().await
find_node_start(path) ==
    /\ lookup.pc \in {"idle", "done"}
    /\ vfs_readers' = vfs_readers + 1
    /\ lookup' = [IdleLookup EXCEPT !.pc = "walk", !.path = path, !.rest = path]
    /\ UNCHANGED <<scanVars, reads, spawned, notify>>
    /\ UNCHANGED <<fetchVars, repairVars>>

\* find_node: one turn of the loop over the components; the call returns,
\* dropping its read guard, on a miss and after the last component
find_node_step ==
    /\ lookup.pc = "walk"
    /\ LET next == Child(vfs, lookup.current, Head(lookup.rest))
           last == next = NoNode \/ Tail(lookup.rest) = << >>
       IN  /\ lookup' = [lookup EXCEPT !.pc = IF last THEN "done" ELSE "walk",
                                       !.rest = Tail(@), !.current = next,
                                       !.trees = @ \cup {vfs}]
           /\ vfs_readers' = IF last THEN vfs_readers - 1 ELSE vfs_readers
    /\ UNCHANGED <<scanVars, reads, spawned, notify>>
    /\ UNCHANGED <<fetchVars, repairVars>>

\* find_node taken by itself
LookupStart(path) == find_node_start(path) /\ UNCHANGED auxVars
LookupStep == find_node_step /\ UNCHANGED auxVars

(***************************************************************************)
(* impl DavFileSystem for DebridFileSystem and impl DavFile for the handle *)
(* open returns (src/src/dav_fs.rs).  dav holds the running operation, its *)
(* path, what it returned and whether the handle it returned is still held.*)
(***************************************************************************)
DavOps == {"open", "read_dir", "metadata"}
FileOps == {"metadata", "read_bytes", "seek", "flush", "write_buf", "write_bytes"}

\* the paths clients ask for, with missing components and components
\* below a file
DavPaths ==
    LookupPaths
    \cup {<<"Movies", "T1", NfoName("Movies")>>,
          <<"Movies", "T1", StreamName, "x">>,
          <<"Movies", "T1", NfoName("Movies"), "x">>,
          <<"Movies", "T1", "x">>,
          <<"Music">>}

IsDirectory(node) == node.kind \in {"root", "dir", "title"}
IsFile(node) == node.kind \in {"file", "virtual"}

\* what the operation makes of the Option<VfsNode> find_node returned
dav_result(op, node) ==
    CASE node = NoNode -> "NotFound"
      [] op = "open" -> IF IsFile(node) THEN "Ok" ELSE "Forbidden"
      [] op = "read_dir" -> IF IsDirectory(node) THEN "Ok" ELSE "Forbidden"
      [] OTHER -> "Ok"

\* what a method of the file handle returns; read_bytes is Ok or Err as
\* its download goes
file_result(op, outcome) ==
    CASE op \in {"write_buf", "write_bytes"} -> "Forbidden"
      [] op = "read_bytes" -> IF outcome = "Ok" THEN "Ok" ELSE "GeneralFailure"
      [] OTHER -> "Ok"

\* open(path, options), read_dir(path) or metadata(path) is called; write
\* is options.write, set by a client that means to write (PUT)
DavStart(op, path, write) ==
    /\ dav.pc # "find"
    /\ write => op = "open"
    /\ find_node_start(path)
    /\ dav' = [pc |-> "find", op |-> op, path |-> path, write |-> write,
               ret |-> "None", handle |-> FALSE]
    /\ UNCHANGED <<gt, cache, cache_op, pure>>

\* the operation goes through one turn of find_node; when find_node
\* returns the operation returns too
DavStep ==
    /\ dav.pc = "find"
    /\ find_node_step
    /\ dav' = IF lookup'.pc = "done"
              THEN [dav EXCEPT !.pc = "done",
                               !.ret = dav_result(dav.op, lookup'.current),
                               !.handle = (dav.op = "open"
                                           /\ dav_result(dav.op, lookup'.current) = "Ok")]
              ELSE dav
    /\ UNCHANGED <<gt, cache, cache_op, pure>>

\* a method of the handle that open returned
DavFileOp(op, outcome) ==
    /\ dav.pc = "done" /\ dav.handle
    /\ outcome = "Err" => op = "read_bytes"
    /\ dav' = [dav EXCEPT !.op = op, !.ret = file_result(op, outcome)]
    /\ UNCHANGED <<gt, cache, cache_op, pure>>
    /\ UNCHANGED <<scanVars, davVars, notify>>
    /\ UNCHANGED <<fetchVars, repairVars>>

(***************************************************************************)
(* Read of a stream file.  The handle holds origin_torrent_id and          *)
(* origin_link; ret is what the last read returned and calls the number of *)
(* unrestrict calls it made.                                               *)
(***************************************************************************)
\* a reader that is not inside a stream-file read
IdleRead == [pc |-> "idle", id |-> 0, link |-> "None", ret |-> "None", calls |-> 0]
Readers == {"w1", "w2"}

\* read step 1: fail if should_hide(origin_torrent_id), else go on to unrestrict
ReadStart(r, id, link) ==
    /\ reads[r].pc \in {"idle", "done"}
    /\ reads' = [reads EXCEPT ![r] =
                    IF should_hide_torrent(health_status, id)
                    THEN [pc |-> "done", id |-> id, link |-> link, ret |-> "Err", calls |-> 0]
                    ELSE [pc |-> "unrestrict", id |-> id, link |-> link,
                          ret |-> "None", calls |-> 0]]
    /\ last_op' = Other
    /\ UNCHANGED <<health_status, remote, next_id, repair, hc>>
    /\ UNCHANGED <<scanVars, vfs_readers, lookup, spawned, notify, auxVars>>
    /\ UNCHANGED fetchVars

\* read step 2: unrestrict_link(origin_link) comes back; on success the read
\* serves the bytes, on an error it goes on to step 3, and a panic inside
\* fetch_with_retry unwinds the read
ReadUnrestrict(r, outcome) ==
    /\ reads[r].pc = "unrestrict"
    /\ reads' = [reads EXCEPT ![r] =
                    CASE outcome = "Ok"  -> [@ EXCEPT !.pc = "done", !.ret = "Ok", !.calls = @ + 1]
                      [] outcome = "Err" -> [@ EXCEPT !.pc = "mark", !.calls = @ + 1]
                      [] OTHER           -> [@ EXCEPT !.pc = "done", !.ret = "Panic",
                                                      !.calls = @ + 1]]
    /\ last_op' = Other
    /\ UNCHANGED <<health_status, remote, next_id, repair, hc>>
    /\ UNCHANGED <<scanVars, vfs_readers, lookup, spawned, notify, auxVars>>
    /\ UNCHANGED fetchVars

\* read step 3: mark_broken(id, link) under the write lock, spawn
\* repair_by_id(id) without awaiting it, fail this read
ReadMarkBroken(r) ==
    /\ reads[r].pc = "mark"
    /\ health_status' = MapInsert(health_status, reads[r].id,
                                  mark_broken_entry(health_status, reads[r].id, reads[r].link))
    /\ spawned' = spawned \cup {reads[r].id}
    /\ reads' = [reads EXCEPT ![r] = [@ EXCEPT !.pc = "done", !.ret = "Err"]]
    /\ last_op' = Marked(reads[r].id)
    /\ UNCHANGED <<remote, next_id, repair, hc>>
    /\ UNCHANGED <<scanVars, vfs_readers, lookup, notify, auxVars>>
    /\ UNCHANGED fetchVars

(***************************************************************************)
(* JellyfinClient::notify_changes (src/src/jellyfin_client.rs)             *)
(***************************************************************************)
MAX_RETRIES == 10
MaxChanges == 2            \* longest change list handed to notify_changes

\* what one POST can come back with: a response with a status, a connect
\* error, or another transport error
NotifyStatuses == {200, 204, 404, 500, 503}
NotifyResults ==
    {[err |-> "None", status |-> st] : st \in NotifyStatuses}
    \cup {[err |-> e, status |-> 0] : e \in {"connect", "timeout"}}

\* StatusCode::is_success
is_success(status) == status >= 200 /\ status < 300

\* (mutant) every failed send is retried
notify_retries_anyError(res) ==
    \/ res.err # "None"
    \/ ~is_success(res.status) /\ res.status = 503

\* the arms of the match that end in `continue`
notify_retries(res) ==
    \/ res.err = "connect"
    \/ res.err = "None" /\ ~is_success(res.status) /\ res.status = 503

\* no notify_changes call is running; outcomes lists what the POSTs of the
\* last call came back with
IdleNotify == [pc |-> "idle", changes |-> 0, outcomes |-> << >>]

\* notify_changes(changes) up to the first POST: return on an empty list,
\* else build the body and sleep NOTIFICATION_DELAY
NotifyCall(changes) ==
    /\ notify.pc \in {"idle", "done"}
    /\ notify' = [pc |-> IF changes = 0 THEN "done" ELSE "send",
                  changes |-> changes, outcomes |-> << >>]
    /\ UNCHANGED <<scanVars, davVars, auxVars>>
    /\ UNCHANGED <<fetchVars, repairVars>>

\* one iteration of `for attempt in 0..MAX_RETRIES`: sleep RETRY_DELAY
\* unless it is the first, POST, and match on the result
NotifySend(res) ==
    /\ notify.pc = "send"
    /\ LET attempt_no == Len(notify.outcomes)
       IN  notify' = [notify EXCEPT
                        !.outcomes = Append(@, res),
                        !.pc = IF notify_retries(res) /\ attempt_no + 1 < MAX_RETRIES
                               THEN "send" ELSE "done"]
    /\ UNCHANGED <<scanVars, davVars, auxVars>>
    /\ UNCHANGED <<fetchVars, repairVars>>

(***************************************************************************)
(* RealDebridClient::get_torrents (src/src/rd_client.rs)                   *)
(***************************************************************************)
MaxPages == 3              \* non-empty pages the remote has to give
MaxPageLen == 2            \* torrents on one page

\* what one page can hold
PageAnswers == UNION {[1..n -> TorrentIds] : n \in 0..MaxPageLen}

\* no get_torrents call is running.  answers lists what the page fetches
\* that succeeded came back with and last is the outcome of the latest fetch.
IdleList == [pc |-> "idle", page |-> 1, all_torrents |-> << >>, ret |-> "None",
             answers |-> << >>, last |-> "None"]

\* (mutant) a failed page always fails the call
gt_returns_partial_never(all_torrents) == FALSE

\* Err(e) => if !all_torrents.is_empty() { break }
gt_returns_partial(all_torrents) == all_torrents # << >>

\* get_torrents(): let mut all_torrents = Vec::new(); let mut page = 1;
ListCall ==
    /\ gt.pc \in {"idle", "done"}
    /\ gt' = [IdleList EXCEPT !.pc = "page"]
    /\ UNCHANGED <<scanVars, davVars, notify, cache, cache_op, dav, pure>>
    /\ UNCHANGED <<fetchVars, repairVars>>

\* one iteration of the loop: fetch_with_retry for the page, then the match
ListPage(outcome, torrents) ==
    /\ gt.pc = "page"
    /\ CASE outcome = "Ok" ->
              /\ (torrents # << >>) => gt.page <= MaxPages
              /\ gt' = IF torrents = << >>
                       THEN [gt EXCEPT !.pc = "done", !.ret = "Ok",
                                       !.answers = Append(@, torrents), !.last = "Ok"]
                       ELSE [gt EXCEPT !.all_torrents = @ \o torrents, !.page = @ + 1,
                                       !.answers = Append(@, torrents), !.last = "Ok"]
         [] outcome = "Err" ->
              /\ torrents = << >>
              /\ gt' = IF gt_returns_partial(gt.all_torrents)
                       THEN [gt EXCEPT !.pc = "done", !.ret = "Ok", !.last = "Err"]
                       ELSE [gt EXCEPT !.pc = "done", !.ret = "Err", !.last = "Err"]
         [] OTHER ->
              /\ torrents = << >>
              /\ gt' = [gt EXCEPT !.pc = "done", !.ret = "Panic", !.last = "Panic"]
    /\ UNCHANGED <<scanVars, davVars, notify, cache, cache_op, dav, pure>>
    /\ UNCHANGED <<fetchVars, repairVars>>

(***************************************************************************)
(* The unrestrict cache of RealDebridClient (src/src/rd_client.rs).  An    *)
(* entry is kept as its age, cached_at.elapsed(), saturated at AgeCap.     *)
(***************************************************************************)
CACHE_TTL_MS == 3600 * 1000
\* MAX_CACHE_SIZE, 10_000 in the code, scaled down to what can be enumerated
MaxCacheSize == 2
CacheLinks == {"l1", "l2", "l3", "l4", "l5"}
CacheTicks == {1800 * 1000}
AgeCap == 2 * CACHE_TTL_MS

\* callers of unrestrict_link that may stand between its insert and its
\* size check at one time
MaxCallers == 3

\* unchecked: the callers that inserted and have not yet checked the size
NoCacheOp == [op |-> "none", expired |-> 0, oldest |-> 0, unchecked |-> 0]

\* (mutant) an entry is still fresh at the very end of its TTL
is_fresh_inclusive(age) == age <= CACHE_TTL_MS

\* cached_at.elapsed() < CACHE_TTL
is_fresh(age) == age < CACHE_TTL_MS

Restrict(f, keys) == [k \in keys |-> f[k]]

\* cache.retain(|_, v| v.cached_at.elapsed() < CACHE_TTL)
retain_fresh(c) == Restrict(c, {l \in DOMAIN c : is_fresh(c[l])})

\* entries.sort_by_key(cached_at), take(k): the sets of k entries that can
\* come first, entries of equal age standing in the map's iteration order
OldestSets(c, k) ==
    {R \in SUBSET DOMAIN c :
        /\ Cardinality(R) = k
        /\ \A r \in R, kept \in (DOMAIN c) \ R : c[r] >= c[kept]}

\* what evict_expired_cache can leave of the cache
evict_results(c) ==
    LET fresh == retain_fresh(c)
        len == Cardinality(DOMAIN fresh)
    IN  IF len > MaxCacheSize
        THEN {Restrict(fresh, (DOMAIN fresh) \ R) : R \in OldestSets(fresh, len - MaxCacheSize)}
        ELSE {fresh}

\* unrestrict_link, the cache check at its top
CacheGet(link) ==
    /\ cache_op' = [NoCacheOp EXCEPT
                       !.op = IF link \in DOMAIN cache /\ is_fresh(cache[link])
                              THEN "hit" ELSE "miss",
                       !.unchecked = cache_op.unchecked]
    /\ UNCHANGED <<cache, gt, dav, pure>>
    /\ UNCHANGED <<scanVars, davVars, notify>>
    /\ UNCHANGED <<fetchVars, repairVars>>

\* unrestrict_link, after the remote answered: cache.insert(link, now)
\* under the write lock, which is released before the size is looked at
CacheInsert(link) ==
    /\ cache_op.unchecked < MaxCallers
    /\ cache' = MapInsert(cache, link, 0)
    /\ cache_op' = [NoCacheOp EXCEPT !.op = "insert",
                                     !.unchecked = cache_op.unchecked + 1]
    /\ UNCHANGED <<gt, dav, pure>>
    /\ UNCHANGED <<scanVars, davVars, notify>>
    /\ UNCHANGED <<fetchVars, repairVars>>

\* what a call of evict_expired_cache leaving result records
evicted(result, unchecked) ==
    LET fresh == retain_fresh(cache)
    IN  [op |-> "evict",
         expired |-> Cardinality((DOMAIN cache) \ DOMAIN fresh),
         oldest |-> Cardinality((DOMAIN fresh) \ DOMAIN result),
         unchecked |-> unchecked]

\* unrestrict_link, its end: if cache.len() > MAX_CACHE_SIZE the caller
\* runs evict_expired_cache, which leaves result
CacheCheckSize(result) ==
    /\ cache_op.unchecked > 0
    /\ IF Cardinality(DOMAIN cache) > MaxCacheSize
       THEN /\ result \in evict_results(cache)
            /\ cache' = result
            /\ cache_op' = evicted(result, cache_op.unchecked - 1)
       ELSE /\ result = cache
            /\ cache' = cache
            /\ cache_op' = [NoCacheOp EXCEPT !.op = "fits",
                                             !.unchecked = cache_op.unchecked - 1]
    /\ UNCHANGED <<gt, dav, pure>>
    /\ UNCHANGED <<scanVars, davVars, notify>>
    /\ UNCHANGED <<fetchVars, repairVars>>

\* evict_expired_cache() called on its own, leaving result
CacheEvict(result) ==
    /\ result \in evict_results(cache)
    /\ cache' = result
    /\ cache_op' = evicted(result, cache_op.unchecked)
    /\ UNCHANGED <<gt, dav, pure>>
    /\ UNCHANGED <<scanVars, davVars, notify>>
    /\ UNCHANGED <<fetchVars, repairVars>>

\* d ms pass
CacheTick(d) ==
    /\ cache' = [l \in DOMAIN cache |-> Min(cache[l] + d, AgeCap)]
    /\ cache' # cache
    /\ cache_op' = [NoCacheOp EXCEPT !.unchecked = cache_op.unchecked]
    /\ UNCHANGED <<gt, dav, pure>>
    /\ UNCHANGED <<scanVars, davVars, notify>>
    /\ UNCHANGED <<fetchVars, repairVars>>

\* no adapter operation has run
IdleDav == [pc |-> "idle", op |-> "none", path |-> << >>, write |-> FALSE,
            ret |-> "None", handle |-> FALSE]

\* no function has been applied
NoCall == [fn |-> "none"]

(***************************************************************************)
(* Stream files: the payload DebridVfs::add_path_to_tree stores            *)
(* (src/src/vfs.rs) and the handle the adapter opens on it.  A byte string  *)
(* is kept as its runs: text bytes, then a newline, then padding spaces.    *)
(***************************************************************************)
STRM_FIXED_SIZE == 1024
LinkLens == {0, 40, 1023, 1024, 1500}
UrlLens == {0, 80, 1023, 1024, 1500}
ReadCounts == {100, 1024, 4096}

\* format!("{}\n", text).into_bytes() for a text of n bytes
format_line(n) == [text |-> n, newline |-> 1, spaces |-> 0]

content_len(c) == c.text + c.newline + c.spaces

\* Vec::resize(size, b' '): pads with spaces or cuts the tail off
resize(c, size) ==
    IF content_len(c) <= size
    THEN [c EXCEPT !.spaces = c.spaces + (size - content_len(c))]
    ELSE LET text == Min(c.text, size)
             newline == Min(c.newline, size - text)
         IN  [text |-> text, newline |-> newline, spaces |-> size - text - newline]

\* add_path_to_tree: the strm_content of a stream file for a link
strm_content(link_len) == resize(format_line(link_len), STRM_FIXED_SIZE)

\* StreamFile read, step 2: the bytes a read serves from, "<url>\n"
read_content(url_len) == format_line(url_len)

\* Metadata of a stream file: fixed size 1024
strm_metadata_len == STRM_FIXED_SIZE

\* a link of link_len bytes whose unrestricted URL has url_len bytes
StrmInput(link_len, url_len) ==
    [fn |-> "link", link_len |-> link_len, url_len |-> url_len,
     payload |-> format_line(0), meta_len |-> -1, pos |-> 0, total |-> 0,
     eof |-> FALSE, failed |-> FALSE]

\* add_path_to_tree stores the stream file of the link
StrmBuild ==
    /\ pure.fn = "link"
    /\ pure' = [pure EXCEPT !.fn = "built", !.payload = strm_content(pure.link_len)]
    /\ UNCHANGED <<gt, cache, cache_op, dav>>
    /\ UNCHANGED <<scanVars, davVars, notify>>
    /\ UNCHANGED <<fetchVars, repairVars>>

\* open of the stream file: a handle at position 0
StrmOpen ==
    /\ pure.fn \in {"built", "open"}
    /\ pure' = [pure EXCEPT !.fn = "open", !.pos = 0, !.total = 0,
                            !.eof = FALSE, !.failed = FALSE]
    /\ UNCHANGED <<gt, cache, cache_op, dav>>
    /\ UNCHANGED <<scanVars, davVars, notify>>
    /\ UNCHANGED <<fetchVars, repairVars>>

\* metadata of the open handle
StrmMetadata ==
    /\ pure.fn = "open"
    /\ pure' = [pure EXCEPT !.meta_len = strm_metadata_len]
    /\ UNCHANGED <<gt, cache, cache_op, dav>>
    /\ UNCHANGED <<scanVars, davVars, notify>>
    /\ UNCHANGED <<fetchVars, repairVars>>

\* read_bytes(count) on the open handle; outcome is that of unrestrict_link
StrmRead(count, outcome) ==
    /\ pure.fn = "open"
    /\ ~pure.eof /\ ~pure.failed
    /\ IF outcome = "Ok"
       THEN LET bytes == Max(0, Min(count, content_len(read_content(pure.url_len)) - pure.pos))
            IN  pure' = [pure EXCEPT !.pos = pure.pos + bytes,
                                    !.total = pure.total + bytes,
                                    !.eof = (bytes = 0)]
       ELSE pure' = [pure EXCEPT !.failed = TRUE]
    /\ UNCHANGED <<gt, cache, cache_op, dav>>
    /\ UNCHANGED <<scanVars, davVars, notify>>
    /\ UNCHANGED <<fetchVars, repairVars>>

(***************************************************************************)
(* The VFS tree and DebridVfs::build (src/src/vfs.rs).  A name is kept as  *)
(* the parts the code formats it from: "Movie (1).strm" is base "Movie",   *)
(* n 1, suffix ".strm".  A link is the pair of the torrent and the place   *)
(* of the link among the torrent's links.                                  *)
(***************************************************************************)
Name(base, n, suffix) == [base |-> base, n |-> n, suffix |-> suffix]
DirName(s) == Name(s, 0, "")

EmptyBytes == [text |-> 0, newline |-> 0, spaces |-> 0]
\* the length of a link of the account
LinkLength == 40

\* VfsNode::Directory, ::StrmFile, ::VirtualFile
Directory(children) ==
    [kind |-> "Directory", children |-> children, strm_content |-> EmptyBytes,
     rd_link |-> << >>, rd_torrent_id |-> 0, content |-> << >>]
StrmFile(strm_bytes, rd_link, rd_torrent_id) ==
    [kind |-> "StrmFile", children |-> << >>, strm_content |-> strm_bytes,
     rd_link |-> rd_link, rd_torrent_id |-> rd_torrent_id, content |-> << >>]
VirtualFile(content) ==
    [kind |-> "VirtualFile", children |-> << >>, strm_content |-> EmptyBytes,
     rd_link |-> << >>, rd_torrent_id |-> 0, content |-> content]

\* MediaMetadata, its fields in the order sorted_metadata compares them
Titles == <<"A", "A/B">>
Years == <<"None", "2000">>
ExternalIds == <<"None", "tmdb:1">>
MediaTypes == <<"Movie", "Show">>
Metadatas ==
    [title : SeqRange(Titles), year : SeqRange(Years),
     media_type : SeqRange(MediaTypes), external_id : SeqRange(ExternalIds)]

\* the files of a torrent: the path by its stem and extension
TorrentFile(stem, ext, selected) ==
    [path |-> [stem |-> stem, ext |-> ext], selected |-> selected]
FileLists ==
    {<< >>,
     <<TorrentFile("Movie", ".mkv", 1)>>,
     <<TorrentFile("notes", ".txt", 1), TorrentFile("Movie", ".mkv", 1)>>,
     <<TorrentFile("Movie", ".mkv", 0), TorrentFile("Movie.Sample", ".mkv", 1)>>,
     <<TorrentFile("S01E01", ".mkv", 1), TorrentFile("S02E05", ".mkv", 1)>>,
     <<TorrentFile("Movie", ".mkv", 1), TorrentFile("Movie", ".avi", 1)>>}
TorrentBytes == {1000, 5000}

VIDEO_EXTENSIONS ==
    {".mkv", ".mp4", ".avi", ".m4v", ".mov", ".wmv", ".flv", ".ts", ".m2ts"}

\* filename.contains("sample") || .. "trailer", "extra", "bonus", "featurette"
contains_excluded_word(stem) == stem \in {"Movie.Sample"}

is_video_file(path) ==
    /\ ~contains_excluded_word(path.stem)
    /\ path.ext \in VIDEO_EXTENSIONS

\* SEASON_RE on the file name, unwrap_or(1)
season_of(stem) ==
    CASE stem = "S01E01" -> 1
      [] stem = "S02E05" -> 2
      [] OTHER -> 1

SelectedCount(files) == Cardinality({i \in 1..Len(files) : files[i].selected = 1})

\* a torrent of the account; it has a link for each selected file, or,
\* when short, one less
TorrentInfo(id, bytes, files, short) ==
    [id |-> id, bytes |-> bytes, files |-> files,
     links |-> [i \in 1..Max(0, SelectedCount(files) - (IF short THEN 1 ELSE 0)) |-> <<id, i>>]]

\* sanitize_filename: '/' becomes '-'
sanitize_filename(title) == IF title = "A/B" THEN "A-B" ELSE title

\* " [{source}id-{raw_id}]"
id_suffix(external_id) == IF external_id = "tmdb:1" THEN " [tmdbid-1]" ELSE " [id=]"

\* generate_nfo: the tag and the texts the file is made of; none of the
\* texts holds a character xml_escape replaces
generate_nfo(metadata) ==
    <<IF metadata.media_type = "Movie" THEN "movie" ELSE "tvshow",
      metadata.title, metadata.year, metadata.external_id>>

Rank(seq, x) == CHOOSE i \in 1..Len(seq) : seq[i] = x

\* a.title.cmp(b.title).then(year).then(external_id); groups that differ in
\* the media type only come in the order of the hash map, which the result
\* does not depend on as they fill different directories
metadata_before(a, b) ==
    LET ka == <<Rank(Titles, a.title), Rank(Years, a.year),
                Rank(ExternalIds, a.external_id), Rank(MediaTypes, a.media_type)>>
        kb == <<Rank(Titles, b.title), Rank(Years, b.year),
                Rank(ExternalIds, b.external_id), Rank(MediaTypes, b.media_type)>>
    IN  \E i \in 1..4 : ka[i] < kb[i] /\ \A j \in 1..(i - 1) : ka[j] = kb[j]

\* media_groups.keys() sorted
RECURSIVE sorted_metadata(_)
sorted_metadata(keys) ==
    IF keys = {} THEN << >>
    ELSE LET first == CHOOSE m \in keys : \A o \in keys \ {m} : metadata_before(m, o)
         IN  <<first>> \o sorted_metadata(keys \ {first})

\* media_groups.get(&metadata): the group's torrents in the order given
media_group(torrents, metadata) ==
    LET InGroup(pair) == pair[2] = metadata
        pairs == SelectSeq(torrents, InGroup)
    IN  [i \in 1..Len(pairs) |-> pairs[i][1]]

\* (mutant) the smallest torrent comes first
RECURSIVE sort_by_bytes_ascending(_)
sort_by_bytes_ascending(ts) ==
    IF ts = << >> THEN << >>
    ELSE LET least == CHOOSE b \in {ts[i].bytes : i \in 1..Len(ts)} :
                          \A i \in 1..Len(ts) : ts[i].bytes >= b
             IsLeast(t) == t.bytes = least
             IsMore(t) == t.bytes # least
         IN  SelectSeq(ts, IsLeast) \o sort_by_bytes_ascending(SelectSeq(ts, IsMore))

\* torrents.sort_by_key(|t| Reverse(t.bytes)): a stable sort, torrents of
\* equal size stay in the order given
RECURSIVE sort_by_reverse_bytes(_)
sort_by_reverse_bytes(ts) ==
    IF ts = << >> THEN << >>
    ELSE LET most == CHOOSE b \in {ts[i].bytes : i \in 1..Len(ts)} :
                         \A i \in 1..Len(ts) : ts[i].bytes <= b
             IsMost(t) == t.bytes = most
             IsLess(t) == t.bytes # most
         IN  SelectSeq(ts, IsMost) \o sort_by_reverse_bytes(SelectSeq(ts, IsLess))

\* add_path_to_tree: the first of name, "name (1)", "name (2)" .. not taken
RECURSIVE final_name(_, _, _)
final_name(children, strm_name, counter) ==
    LET candidate == [strm_name EXCEPT !.n = counter]
    IN  IF candidate \in DOMAIN children
        THEN final_name(children, strm_name, counter + 1)
        ELSE candidate

\* add_path_to_tree for a path of one part
add_path_to_tree(children, path, torrent_id, link) ==
    MapInsert(children, final_name(children, Name(path.stem, 0, ".strm"), 0),
              StrmFile(strm_content(LinkLength), link, torrent_id))

\* (mutant) link_idx counts the selected video files only
RECURSIVE add_torrent_files_videoRank(_, _, _, _)
add_torrent_files_videoRank(destination, torrent, i, link_idx) ==
    IF i > Len(torrent.files) THEN destination
    ELSE LET file == torrent.files[i]
         IN  IF file.selected # 1 \/ ~is_video_file(file.path)
             THEN add_torrent_files_videoRank(destination, torrent, i + 1, link_idx)
             ELSE add_torrent_files_videoRank(
                      IF link_idx < Len(torrent.links)
                      THEN add_path_to_tree(destination, file.path, torrent.id,
                                            torrent.links[link_idx + 1])
                      ELSE destination,
                      torrent, i + 1, link_idx + 1)

\* add_torrent_files from file i on, link_idx links being used up
RECURSIVE add_torrent_files(_, _, _, _)
add_torrent_files(destination, torrent, i, link_idx) ==
    IF i > Len(torrent.files) THEN destination
    ELSE LET file == torrent.files[i]
         IN  IF file.selected # 1
             THEN add_torrent_files(destination, torrent, i + 1, link_idx)
             ELSE add_torrent_files(
                      IF is_video_file(file.path) /\ link_idx < Len(torrent.links)
                      THEN add_path_to_tree(destination, file.path, torrent.id,
                                            torrent.links[link_idx + 1])
                      ELSE destination,
                      torrent, i + 1, link_idx + 1)

\* build, the Show arm: the files of one torrent into their season folders
RECURSIVE add_show_files(_, _, _, _)
add_show_files(show_children, torrent, i, link_idx) ==
    IF i > Len(torrent.files) THEN show_children
    ELSE LET file == torrent.files[i]
             season_name == Name("Season", season_of(file.path.stem), "")
             season_children == IF season_name \in DOMAIN show_children
                                THEN show_children[season_name].children
                                ELSE << >>
         IN  IF file.selected # 1
             THEN add_show_files(show_children, torrent, i + 1, link_idx)
             ELSE add_show_files(
                      IF is_video_file(file.path) /\ link_idx < Len(torrent.links)
                      THEN MapInsert(show_children, season_name,
                               Directory(add_path_to_tree(season_children, file.path,
                                             torrent.id, torrent.links[link_idx + 1])))
                      ELSE show_children,
                      torrent, i + 1, link_idx + 1)

\* build, the Show arm: for torrent in torrents
RECURSIVE add_show_torrents(_, _)
add_show_torrents(show_children, torrents) ==
    IF torrents = << >> THEN show_children
    ELSE add_show_torrents(add_show_files(show_children, Head(torrents), 1, 0),
                           Tail(torrents))

\* build, the Movie arm: the children of the folder, before movie.nfo
movie_children(torrents) ==
    IF torrents = << >> THEN << >>
    ELSE add_torrent_files(<< >>, Head(torrents), 1, 0)

\* build: what the loop holds between two groups
BuildStart ==
    [used_movie_names |-> << >>, used_show_names |-> << >>,
     movies_nodes |-> << >>, shows_nodes |-> << >>]

\* build: one turn of `for metadata in sorted_metadata`
build_group(acc, all, metadata) ==
    LET torrents == sort_by_reverse_bytes(media_group(all, metadata))
        base_name == sanitize_filename(metadata.title)
        movie == metadata.media_type = "Movie"
        used_names == IF movie THEN acc.used_movie_names ELSE acc.used_show_names
        nodes == IF movie THEN acc.movies_nodes ELSE acc.shows_nodes
        count == IF base_name \in DOMAIN used_names THEN used_names[base_name] ELSE 0
        folder_name == IF metadata.external_id # "None"
                       THEN Name(base_name, 0, id_suffix(metadata.external_id))
                       ELSE Name(base_name, count, "")
        used_after == IF metadata.external_id # "None" THEN used_names
                      ELSE MapInsert(used_names, base_name, count + 1)
        children == IF movie THEN movie_children(torrents)
                    ELSE add_show_torrents(<< >>, torrents)
        nfo_name == IF movie THEN Name("movie", 0, ".nfo") ELSE Name("tvshow", 0, ".nfo")
        nodes_after == IF children = << >> THEN nodes
                       ELSE MapInsert(nodes, folder_name,
                                Directory(MapInsert(children, nfo_name,
                                              VirtualFile(generate_nfo(metadata)))))
    IN  IF movie
        THEN [acc EXCEPT !.used_movie_names = used_after, !.movies_nodes = nodes_after]
        ELSE [acc EXCEPT !.used_show_names = used_after, !.shows_nodes = nodes_after]

RECURSIVE build_groups(_, _, _)
build_groups(acc, all, metadatas) ==
    IF metadatas = << >> THEN acc
    ELSE build_groups(build_group(acc, all, Head(metadatas)), all, Tail(metadatas))

\* (mutant) a directory without folders is left out of the root
root_of_nonempty(movies_nodes, shows_nodes) ==
    Directory([name \in {n \in {DirName("Movies"), DirName("Shows")} :
                            IF n = DirName("Movies") THEN movies_nodes # << >>
                            ELSE shows_nodes # << >>} |->
                  IF name = DirName("Movies") THEN Directory(movies_nodes)
                  ELSE Directory(shows_nodes)])

\* build: root_children
root_of(movies_nodes, shows_nodes) ==
    Directory([name \in {DirName("Movies"), DirName("Shows")} |->
                  IF name = DirName("Movies") THEN Directory(movies_nodes)
                  ELSE Directory(shows_nodes)])

\* DebridVfs::build(torrents).root
build(torrents) ==
    LET keys == {torrents[i][2] : i \in 1..Len(torrents)}
        acc == build_groups(BuildStart, torrents, sorted_metadata(keys))
    IN  root_of(acc.movies_nodes, acc.shows_nodes)

\* DebridVfs::new().root
DebridVfs_new == root_of(<< >>, << >>)

\* the lists of identified torrents build is called with
MaxBuild == 2
BuildTorrents(id) ==
    {TorrentInfo(id, bytes, files, short) :
        bytes \in TorrentBytes, files \in FileLists, short \in BOOLEAN}
\* the i-th element of such a list
BuildPairs(id) == {<<t, m>> : t \in BuildTorrents(id), m \in Metadatas}
BuildInputs ==
    UNION {{pairs \in [1..n -> UNION {BuildPairs(id) : id \in 1..n}] :
              \A i \in 1..n : pairs[i][1].id = i} : n \in 0..MaxBuild}

BuildCall(fn, torrents) ==
    [fn |-> fn, torrents |-> torrents, done |-> FALSE, root |-> Directory(<< >>)]

\* DebridVfs::build is applied
BuildApply ==
    /\ pure.fn = "build" /\ ~pure.done
    /\ pure' = [pure EXCEPT !.done = TRUE, !.root = build(pure.torrents)]
    /\ UNCHANGED <<gt, cache, cache_op, dav>>
    /\ UNCHANGED <<scanVars, davVars, notify>>
    /\ UNCHANGED <<fetchVars, repairVars>>

\* DebridVfs::new is applied
NewApply ==
    /\ pure.fn = "new" /\ ~pure.done
    /\ pure' = [pure EXCEPT !.done = TRUE, !.root = DebridVfs_new]
    /\ UNCHANGED <<gt, cache, cache_op, dav>>
    /\ UNCHANGED <<scanVars, davVars, notify>>
    /\ UNCHANGED <<fetchVars, repairVars>>

(***************************************************************************)
(* diff_trees (src/src/vfs.rs).  A path is the sequence of its names; the  *)
(* empty prefix is the empty sequence.                                     *)
(***************************************************************************)
\* the names of the trees that are compared, in the order a BTreeMap
\* iterates them
NameOrder == <<DirName("A"), DirName("B")>>
DiffLeaves == {StrmFile(EmptyBytes, << >>, 1), VirtualFile(<<"movie">>)}
MaxDepth == 3

\* the nodes of at most the given depth
RECURSIVE NodesOfDepth(_)
NodesOfDepth(depth) ==
    IF depth = 0 THEN DiffLeaves
    ELSE DiffLeaves
         \cup {Directory(children) :
                 children \in UNION {[names -> NodesOfDepth(depth - 1)] :
                                        names \in SUBSET SeqRange(NameOrder)}}

VfsChange(path, update_type) == [path |-> path, update_type |-> update_type]

\* children.iter(): the names of a directory in order
sorted_names(children) ==
    LET Present(name) == name \in DOMAIN children
    IN  SelectSeq(NameOrder, Present)

RECURSIVE find_deepest_new_dir(_, _)
find_deepest_new_dir(path, children) ==
    LET dir_children == {name \in DOMAIN children : children[name].kind = "Directory"}
    IN  IF Cardinality(dir_children) = 1
        THEN LET name == CHOOSE n \in dir_children : TRUE
             IN  find_deepest_new_dir(Append(path, name), children[name].children)
        ELSE path

\* (mutant) a directory whose recursion found nothing is a change point
is_change_point_unconditional(sub, old_child, new_child) == sub = << >>

\* sub.is_empty() && old_child != new_child
is_change_point(sub, old_child, new_child) == sub = << >> /\ old_child # new_child

RECURSIVE diff_trees(_, _, _)
RECURSIVE diff_old_children(_, _, _, _, _)

\* diff_trees: `for (name, old_child) in old_children`, from the names
\* that are left, acc being changes and has_leaf_changes
diff_old_children(acc, old_children, new_children, prefix, names) ==
    IF names = << >> THEN acc
    ELSE LET name == Head(names)
             old_child == old_children[name]
             child_path == Append(prefix, name)
             after ==
                 IF name \notin DOMAIN new_children
                 THEN IF old_child.kind = "Directory"
                      THEN [acc EXCEPT !.changes = Append(@, VfsChange(child_path, "Deleted"))]
                      ELSE [acc EXCEPT !.has_leaf_changes = TRUE]
                 ELSE LET new_child == new_children[name]
                      IN  IF old_child.kind = "Directory" /\ new_child.kind = "Directory"
                          THEN LET sub == diff_trees(old_child, new_child, child_path)
                               IN  IF is_change_point(sub, old_child, new_child)
                                   THEN [acc EXCEPT !.changes =
                                            Append(@, VfsChange(child_path, "Modified"))]
                                   ELSE [acc EXCEPT !.changes = @ \o sub]
                          ELSE IF old_child # new_child
                          THEN [acc EXCEPT !.has_leaf_changes = TRUE]
                          ELSE acc
         IN  diff_old_children(after, old_children, new_children, prefix, Tail(names))

\* diff_trees: `for (name, new_child) in new_children`
RECURSIVE diff_new_children(_, _, _, _, _)
diff_new_children(acc, old_children, new_children, prefix, names) ==
    IF names = << >> THEN acc
    ELSE LET name == Head(names)
             new_child == new_children[name]
             child_path == Append(prefix, name)
             after ==
                 IF name \in DOMAIN old_children THEN acc
                 ELSE IF new_child.kind = "Directory"
                 THEN [acc EXCEPT !.changes =
                          Append(@, VfsChange(find_deepest_new_dir(child_path, new_child.children),
                                              "Created"))]
                 ELSE [acc EXCEPT !.has_leaf_changes = TRUE]
         IN  diff_new_children(after, old_children, new_children, prefix, Tail(names))

diff_trees(old, new, prefix) ==
    IF ~(old.kind = "Directory" /\ new.kind = "Directory") THEN << >>
    ELSE LET olds == diff_old_children([changes |-> << >>, has_leaf_changes |-> FALSE],
                                       old.children, new.children, prefix,
                                       sorted_names(old.children))
             news == diff_new_children(olds, old.children, new.children, prefix,
                                       sorted_names(new.children))
         IN  IF news.has_leaf_changes /\ prefix # << >>
             THEN Append(news.changes, VfsChange(prefix, "Modified"))
             ELSE news.changes

\* the trees a tree is compared with, besides itself
OtherTrees == NodesOfDepth(1)

DiffCall(old, new) ==
    [fn |-> "diff_trees", old |-> old, new |-> new, done |-> FALSE, changes |-> << >>]

\* diff_trees(old, new, "") is applied
DiffApply ==
    /\ pure.fn = "diff_trees" /\ ~pure.done
    /\ pure' = [pure EXCEPT !.done = TRUE,
                            !.changes = diff_trees(pure.old, pure.new, << >>)]
    /\ UNCHANGED <<gt, cache, cache_op, dav>>
    /\ UNCHANGED <<scanVars, davVars, notify>>
    /\ UNCHANGED <<fetchVars, repairVars>>

(***************************************************************************)
(* is_show_guess (src/src/identification.rs)                               *)
(***************************************************************************)
\* the files a torrent may list
GuessFiles ==
    {TorrentFile(stem, ext, selected) :
        stem \in {"Movie", "S01E01"}, ext \in {".mkv", ".srt"}, selected \in {0, 1}}
MaxFiles == 2
GuessInputs == UNION {[1..n -> GuessFiles] : n \in 0..MaxFiles}

\* SHOW_RE.is_match(filename), filename being the last part of the path
SHOW_RE_is_match(path) == path.stem \in {"S01E01"}

is_show_guess(files) ==
    \/ \E i \in 1..Len(files) : SHOW_RE_is_match(files[i].path)
    \/ Cardinality({i \in 1..Len(files) : is_video_file(files[i].path)}) > 1

GuessCall(files) == [fn |-> "is_show_guess", files |-> files, done |-> FALSE, ret |-> FALSE]

\* is_show_guess(files) is applied
GuessApply ==
    /\ pure.fn = "is_show_guess" /\ ~pure.done
    /\ pure' = [pure EXCEPT !.done = TRUE, !.ret = is_show_guess(pure.files)]
    /\ UNCHANGED <<gt, cache, cache_op, dav>>
    /\ UNCHANGED <<scanVars, davVars, notify>>
    /\ UNCHANGED <<fetchVars, repairVars>>

\* the state of the scan task, the adapter, the notifier and the client at
\* start
AppInit ==
    /\ seen_torrents = {}
    /\ db = {}
    /\ vfs = {}
    /\ scan = IdleScan
    /\ vfs_readers = 0
    /\ lookup = IdleLookup
    /\ reads = [r \in Readers |-> IdleRead]
    /\ spawned = {}
    /\ notify = IdleNotify
    /\ gt = IdleList
    /\ cache = << >>
    /\ cache_op = NoCacheOp
    /\ dav = IdleDav

\* ... with no function being applied
ExtInit == AppInit /\ pure = NoCall

FetchInit ==
    /\ interval_ms = MIN_INTERVAL_MS
    /\ next_allowed = 0
    /\ f_pc = "idle"
    /\ f_site = "get_torrents"
    /\ attempt = 1
    /\ last_error = "None"
    /\ f_requests = 0
    /\ f_tokens = 0
    /\ f_result = "None"
    /\ f_err = "None"
    /\ tokens = NoTokens

\* the state after RepairManager::new, with the given tasks able to call
\* repair_torrent
RepairInit(tasks) ==
    /\ health_status = << >>
    /\ remote = InitialTorrents
    /\ next_id = 2
    /\ repair = [t \in tasks |-> IdleTask]
    /\ hc = IdleCheck
    /\ last_op = Other

InitFetch == FetchInit /\ RepairInit({"r1"}) /\ ExtInit

NextFetch ==
    \/ \E site \in CallSites : FetchCall(site)
    \/ FetchWaitForToken
    \/ \E lat \in Latencies : FetchSendError(lat)
    \/ \E r \in Responses, lat \in Latencies :
          FetchSendResponse(r.status, r.retry_after, r.body, lat, r.jitter)

SpecFetch == InitFetch /\ [][NextFetch]_vars

\* a new limiter and callers that use its methods in any order
InitLimiter == FetchInit /\ RepairInit({"r1"}) /\ ExtInit

NextLimiter ==
    \/ LimRecordSuccess
    \/ \E ra \in RetryAfterValues : LimRecordThrottle(ra)
    \/ LimWaitForToken
    \/ \E d \in Latencies : LimElapse(d)

SpecLimiter == InitLimiter /\ [][NextLimiter]_vars

\* callers of wait_for_token running concurrently with each other and with
\* record_success and record_throttle, while time passes: by a step, or up to
\* the deadline of a caller that sleeps
InitTokens == FetchInit /\ RepairInit({"r1"}) /\ ExtInit

NextTokens ==
    \/ TokReserve
    \/ \E i \in 1..MaxWaiting : TokRelease(i)
    \/ \E d \in TokenSteps \cup {tokens.waiting[j] : j \in 1..Len(tokens.waiting)} :
          TokElapse(d)
    \/ TokRecordSuccess
    \/ \E ra \in RetryAfterValues : TokRecordThrottle(ra)

SpecTokens == InitTokens /\ [][NextTokens]_vars

\* the torrent lists a health check can be called with: known torrents in
\* the key order of the store they are loaded from
CheckLists ==
    {Ascending(ids) : ids \in {x \in SUBSET KnownIds : x # {} /\ Cardinality(x) <= MaxCheckList}}

InitRepair == FetchInit /\ RepairInit({"r1"}) /\ ExtInit

AllLinks == {TorrentLinks[i] : i \in 1..Len(TorrentLinks)}
RepairTasks == DOMAIN repair

\* one repair task, the health check, mark_broken and the passing of time
NextRepair ==
    \/ \E d \in TickSteps : Tick(d)
    \/ \E id \in KnownIds, l \in AllLinks : MarkBroken(id, l)
    \/ \E ts \in CheckLists : CheckCall(ts)
    \/ CheckRead
    \/ \E failed \in SUBSET AllLinks : CheckWrite(failed)
    \/ \E t \in RepairTasks, id \in KnownIds : RepairCall(t, id)
    \/ \E t \in RepairTasks : RepairBegin(t)
    \/ \E t \in RepairTasks, o \in RemoteOutcomes : RepairAddMagnet(t, o)
    \/ \E t \in RepairTasks, o \in RemoteOutcomes, nf \in NewFileLists : RepairGetInfo(t, o, nf)
    \/ \E t \in RepairTasks, o \in RemoteOutcomes : RepairSelectFiles(t, o)
    \/ \E t \in RepairTasks, o \in RemoteOutcomes : RepairDelete(t, o)

SpecRepair == InitRepair /\ [][NextRepair]_vars

\* two tasks calling repair_torrent concurrently (two stream reads failing at
\* the same time), mark_broken and the passing of time
InitRace == FetchInit /\ RepairInit({"r1", "r2"}) /\ ExtInit

NextRace ==
    \/ \E d \in TickSteps : Tick(d)
    \/ \E id \in KnownIds, l \in AllLinks : MarkBroken(id, l)
    \/ \E t \in RepairTasks, id \in KnownIds : RepairCall(t, id)
    \/ \E t \in RepairTasks : RepairBegin(t)
    \/ \E t \in RepairTasks, o \in RemoteOutcomes : RepairAddMagnet(t, o)
    \/ \E t \in RepairTasks, o \in RemoteOutcomes, nf \in NewFileLists : RepairGetInfo(t, o, nf)
    \/ \E t \in RepairTasks, o \in RemoteOutcomes : RepairSelectFiles(t, o)
    \/ \E t \in RepairTasks, o \in RemoteOutcomes : RepairDelete(t, o)

SpecRace == InitRace /\ [][NextRace]_vars

\* the scan task, the account changing, and the health map changing under
\* mark_broken and the health check
InitScan == FetchInit /\ RepairInit({"r1"}) /\ ExtInit

NextScan ==
    \/ RemoteAdd
    \/ \E id \in KnownIds : RemoteRemove(id)
    \/ \E o \in RemoteOutcomes, listed \in SUBSET KnownIds :
          \E downloaded \in SUBSET listed, readable \in SUBSET db :
             ScanFetch(o, listed, downloaded, readable)
    \/ \E o \in RemoteOutcomes, stored \in BOOLEAN : ScanIdentify(o, stored)
    \/ ScanFilter
    \/ ScanSwap
    \/ ScanPurge
    \/ \E id \in KnownIds, l \in AllLinks : MarkBroken(id, l)
    \/ \E ts \in CheckLists : CheckCall(ts)
    \/ CheckRead
    \/ \E failed \in SUBSET AllLinks : CheckWrite(failed)

SpecScan == InitScan /\ [][NextScan]_vars

\* the scan task and a path lookup
InitLookup == FetchInit /\ RepairInit({"r1"}) /\ ExtInit

NextLookup ==
    \/ RemoteAdd
    \/ \E o \in RemoteOutcomes, listed \in SUBSET KnownIds :
          \E downloaded \in SUBSET listed, readable \in SUBSET db :
             ScanFetch(o, listed, downloaded, readable)
    \/ \E o \in RemoteOutcomes, stored \in BOOLEAN : ScanIdentify(o, stored)
    \/ ScanFilter
    \/ ScanSwap
    \/ ScanPurge
    \/ \E path \in LookupPaths : LookupStart(path)
    \/ LookupStep

SpecLookup == InitLookup /\ [][NextLookup]_vars

\* clients of the adapter against a scan task that swaps trees in
InitDav == FetchInit /\ RepairInit({"r1"}) /\ ExtInit

NextDav ==
    \/ RemoteAdd
    \/ \E o \in RemoteOutcomes, listed \in SUBSET KnownIds :
          \E downloaded \in SUBSET listed, readable \in SUBSET db :
             ScanFetch(o, listed, downloaded, readable)
    \/ \E o \in RemoteOutcomes, stored \in BOOLEAN : ScanIdentify(o, stored)
    \/ ScanFilter
    \/ ScanSwap
    \/ ScanPurge
    \/ \E op \in DavOps, path \in DavPaths, write \in BOOLEAN : DavStart(op, path, write)
    \/ DavStep
    \/ \E op \in FileOps, outcome \in {"Ok", "Err"} : DavFileOp(op, outcome)

SpecDav == InitDav /\ [][NextDav]_vars

\* two readers of stream files, the repairs their failures spawn
\* (repair_by_id: fetch detail, then repair_torrent) and the passing of time
InitRead == FetchInit /\ RepairInit({"r1"}) /\ ExtInit

NextRead ==
    \/ \E d \in TickSteps : Tick(d)
    \/ \E r \in Readers, id \in KnownIds, l \in AllLinks : ReadStart(r, id, l)
    \/ \E r \in Readers, o \in RemoteOutcomes : ReadUnrestrict(r, o)
    \/ \E r \in Readers : ReadMarkBroken(r)
    \/ \E t \in RepairTasks, id \in spawned : RepairCall(t, id)
    \/ \E t \in RepairTasks : RepairBegin(t)
    \/ \E t \in RepairTasks, o \in RemoteOutcomes : RepairAddMagnet(t, o)
    \/ \E t \in RepairTasks, o \in RemoteOutcomes, nf \in NewFileLists : RepairGetInfo(t, o, nf)
    \/ \E t \in RepairTasks, o \in RemoteOutcomes : RepairSelectFiles(t, o)
    \/ \E t \in RepairTasks, o \in RemoteOutcomes : RepairDelete(t, o)

SpecRead == InitRead /\ [][NextRead]_vars

\* a caller of get_torrents and a remote that answers page by page
InitList == FetchInit /\ RepairInit({"r1"}) /\ ExtInit

NextList ==
    \/ ListCall
    \/ \E o \in RemoteOutcomes, ts \in PageAnswers : ListPage(o, ts)

SpecList == InitList /\ [][NextList]_vars

\* callers of unrestrict_link filling the cache, evictions and time passing
InitCache == FetchInit /\ RepairInit({"r1"}) /\ ExtInit

NextCache ==
    \/ \E l \in CacheLinks : CacheGet(l)
    \/ \E l \in CacheLinks : CacheInsert(l)
    \/ \E res \in evict_results(cache) \cup {cache} : CacheCheckSize(res)
    \/ \E res \in evict_results(cache) : CacheEvict(res)
    \/ \E d \in CacheTicks : CacheTick(d)

SpecCache == InitCache /\ [][NextCache]_vars

\* stream files of links and URLs of any length, built, opened and read
InitStrm ==
    /\ FetchInit /\ RepairInit({"r1"}) /\ AppInit
    /\ pure \in {StrmInput(l, u) : l \in LinkLens, u \in UrlLens}

NextStrm ==
    \/ StrmBuild
    \/ StrmOpen
    \/ StrmMetadata
    \/ \E count \in ReadCounts, outcome \in {"Ok", "Err"} : StrmRead(count, outcome)

SpecStrm == InitStrm /\ [][NextStrm]_vars

\* trees built from lists of identified torrents, and the empty tree
InitBuild ==
    /\ FetchInit /\ RepairInit({"r1"}) /\ AppInit
    /\ pure \in {BuildCall("build", torrents) : torrents \in BuildInputs}
                 \cup {BuildCall("new", << >>)}

NextBuild ==
    \/ BuildApply
    \/ NewApply

SpecBuild == InitBuild /\ [][NextBuild]_vars

\* every tree of up to MaxDepth levels compared with itself and with others
InitDiff ==
    /\ FetchInit /\ RepairInit({"r1"}) /\ AppInit
    /\ \E old \in NodesOfDepth(MaxDepth) :
          \E new \in {old} \cup OtherTrees : pure = DiffCall(old, new)

NextDiff == DiffApply

SpecDiff == InitDiff /\ [][NextDiff]_vars

\* the guess for every list of up to MaxFiles files
InitGuess ==
    /\ FetchInit /\ RepairInit({"r1"}) /\ AppInit
    /\ pure \in {GuessCall(files) : files \in GuessInputs}

NextGuess == GuessApply

SpecGuess == InitGuess /\ [][NextGuess]_vars

\* a notifier that is handed change lists of any length
InitNotify == FetchInit /\ RepairInit({"r1"}) /\ ExtInit

NextNotify ==
    \/ \E changes \in 0..MaxChanges : NotifyCall(changes)
    \/ \E res \in NotifyResults : NotifySend(res)

SpecNotify == InitNotify /\ [][NextNotify]_vars

(***************************************************************************)
(* Properties of fetch_with_retry (SpecFetch)                              *)
(***************************************************************************)
\* C1: a logical call ends by handing its caller a value or a single error;
\* it never panics, whatever the remote answers.
C1_ValueOrSingleError ==
    f_pc = "done" => /\ f_result \in {"Ok", "Err"}
                     /\ (f_result = "Err") = (f_err # "None")

\* C2: a logical call sends at most 10 requests, and every request sent was
\* preceded by exactly one token reservation.
C2_AtMostTenRequests ==
    /\ f_requests <= 10
    /\ f_tokens = IF f_pc = "send" THEN f_requests + 1 ELSE f_requests

C2_TenRequestsSent ==
    f_pc = "done" /\ f_requests = 10 /\ f_tokens = 10 /\ f_result = "Err"

(***************************************************************************)
(* Properties of the repair manager (SpecRepair, SpecRace)                 *)
(***************************************************************************)
RefusalErrors == {"Torrent permanently failed", "Repair already in progress",
                  "Repair rate limited"}
FailureErrors == {"Failed to add magnet", "Failed to get torrent info",
                  "No matching files found", "Failed to select files"}

Attempts(hm, id) == IF HasEntry(hm, id) THEN hm[id].repair_attempts ELSE 0

\* the step is a return of repair_torrent(id) from the place `at`
ReturnsFrom(id, at) ==
    last_op'.op = "repair_torrent" /\ last_op'.id = id /\ last_op'.at = at

\* the step moves id to Failed
BecomesFailed(id) ==
    /\ HasEntry(health_status', id)
    /\ health_status'[id].state = "Failed"
    /\ ~(HasEntry(health_status, id) /\ health_status[id].state = "Failed")

\* task t leaves the place `at` of repair_torrent in this step
Leaves(t, at) == repair[t].pc = at /\ repair'[t].pc # at

\* C3: repair_torrent for an id whose entry is Failed, Repairing, or was
\* triggered less than 30 s ago returns an error without a remote call and
\* without changing the health map.
C3_Refusable(hm, id) ==
    /\ HasEntry(hm, id)
    /\ \/ hm[id].state = "Failed"
       \/ hm[id].state = "Repairing"
       \/ hm[id].last_repair_trigger \in 0..29999

C3_RefusedWithoutEffect ==
    [][\A id \in TorrentIds :
          C3_Refusable(health_status, id) =>
             /\ \A t \in RepairTasks :
                   ~(repair[t].pc = "idle" /\ repair'[t].pc # "idle" /\ repair'[t].id = id)
             /\ ReturnsFrom(id, "call") =>
                   /\ last_op'.ret \in RefusalErrors
                   /\ last_op'.calls = 0
                   /\ health_status' = health_status
                   /\ remote' = remote /\ next_id' = next_id]_vars

C3_RateLimitedSeen ==
    /\ last_op.op = "repair_torrent" /\ last_op.at = "call"
    /\ last_op.ret = "Repair rate limited" /\ last_op.calls = 0
    /\ health_status[last_op.id].state \in {"Broken", "Healthy"}

C5_AttemptsNeverDecrease ==
    [][\A id \in TorrentIds :
          Attempts(health_status', id) >= Attempts(health_status, id)]_vars

\* C5 (amended): repair_attempts of an id never decreases, except when a
\* repair succeeds: its old id loses its entry and its new id starts at 0.
C5_AttemptsDecreaseOnlyOnSuccess ==
    [][\A id \in TorrentIds :
          Attempts(health_status', id) < Attempts(health_status, id) =>
             \E t \in RepairTasks :
                /\ Leaves(t, "delete")
                /\ last_op'.op = "repair_torrent" /\ last_op'.ret = "Ok"
                /\ id \in {repair[t].id, repair[t].new_id}]_vars

C5_CheckKeepsAttempts ==
    \E id \in DOMAIN health_status :
       health_status[id].state = "Checking" /\ health_status[id].repair_attempts >= 2

C7_AnySubStepFailureFails ==
    [][\A t \in RepairTasks :
          (\/ RepairAddMagnet(t, "Err")
           \/ \E nf \in NewFileLists : RepairGetInfo(t, "Err", nf)
           \/ \E nf \in NewFileLists :
                 RepairGetInfo(t, "Ok", nf) /\ selected_file_ids(TorrentFiles, nf) = << >>
           \/ RepairSelectFiles(t, "Err")
           \/ RepairDelete(t, "Err"))
          => /\ HasEntry(health_status', repair[t].id)
             /\ health_status'[repair[t].id].state = "Failed"
             /\ last_op'.ret \in FailureErrors \cup {"Failed to delete old torrent"}]_vars

\* C7 (amended): when add magnet, fetch new detail or select files returns
\* an error, or no file matches by path, the old entry, if it still exists,
\* is set to Failed and the call returns an error string; a failed delete
\* of the old torrent is only logged and the repair still returns Ok.  A
\* remote call that panics instead of returning unwinds the repair and
\* leaves the health map as it is, the entry still Repairing.
C7_RemoteFailureMarksFailed ==
    [][\A t \in RepairTasks :
          /\ (\/ RepairAddMagnet(t, "Err")
              \/ \E nf \in NewFileLists : RepairGetInfo(t, "Err", nf)
              \/ \E nf \in NewFileLists :
                    RepairGetInfo(t, "Ok", nf) /\ selected_file_ids(TorrentFiles, nf) = << >>
              \/ RepairSelectFiles(t, "Err"))
             => /\ last_op'.op = "repair_torrent"
                /\ last_op'.ret \in FailureErrors
                /\ HasEntry(health_status', repair[t].id) = HasEntry(health_status, repair[t].id)
                /\ HasEntry(health_status, repair[t].id)
                      => health_status'[repair[t].id].state = "Failed"
          /\ RepairDelete(t, "Err")
             => /\ last_op'.ret = "Ok"
                /\ ~HasEntry(health_status', repair[t].id)
          /\ (\/ RepairAddMagnet(t, "Panic")
              \/ \E nf \in NewFileLists : RepairGetInfo(t, "Panic", nf)
              \/ RepairSelectFiles(t, "Panic")
              \/ RepairDelete(t, "Panic"))
             => /\ last_op'.ret = "Panic"
                /\ health_status' = health_status]_vars

C7_FailedByRemoteError ==
    /\ last_op.op = "repair_torrent" /\ last_op.at = "get_info"
    /\ last_op.ret = "Failed to get torrent info"
    /\ HasEntry(health_status, last_op.id)
    /\ health_status[last_op.id].state = "Failed"

\* C8: when repair_torrent succeeds, the health map has no entry for the old
\* id and a Healthy entry for the new id; neither is hidden.
C8_SuccessReplacesEntry ==
    [][\A t \in RepairTasks :
          (/\ Leaves(t, "delete")
           /\ last_op'.op = "repair_torrent" /\ last_op'.ret = "Ok")
          => /\ ~HasEntry(health_status', repair[t].id)
             /\ HasEntry(health_status', repair[t].new_id)
             /\ health_status'[repair[t].new_id].state = "Healthy"
             /\ ~should_hide_torrent(health_status', repair[t].id)
             /\ ~should_hide_torrent(health_status', repair[t].new_id)]_vars

C8_RepairedSeen ==
    /\ last_op.op = "repair_torrent" /\ last_op.ret = "Ok" /\ last_op.calls = 4
    /\ ~HasEntry(health_status, last_op.id)
    /\ \E new \in DOMAIN health_status : health_status[new].state = "Healthy"

\* C9: should_hide(id) is true iff the health map has an entry for id in
\* state Broken, Repairing or Failed: false for an absent entry and for
\* Healthy and Checking.
C9_HiddenIffBrokenRepairingFailed ==
    \A id \in TorrentIds :
       /\ should_hide_torrent(health_status, id) <=>
             \E k \in DOMAIN health_status :
                k = id /\ health_status[k].state \in {"Broken", "Repairing", "Failed"}
       /\ ~should_hide_torrent(health_status, id) <=>
             \/ id \notin DOMAIN health_status
             \/ health_status[id].state \in {"Healthy", "Checking"}

C9_HiddenAndShownSeen ==
    \E a, b \in DOMAIN health_status :
       /\ health_status[a].state = "Failed" /\ should_hide_torrent(health_status, a)
       /\ health_status[b].state = "Checking" /\ ~should_hide_torrent(health_status, b)

\* C10: mark_broken(id, link) leaves id Broken with the repair_attempts it
\* had before (0 without an entry) and changes no other id's entry.
C10_MarkBrokenFrame ==
    [][\A id \in TorrentIds :
          (last_op'.op = "mark_broken" /\ last_op'.id = id) =>
             /\ HasEntry(health_status', id)
             /\ health_status'[id].state = "Broken"
             /\ health_status'[id].repair_attempts = Attempts(health_status, id)
             /\ \A o \in TorrentIds \ {id} :
                   /\ HasEntry(health_status', o) = HasEntry(health_status, o)
                   /\ HasEntry(health_status, o) => health_status'[o] = health_status[o]]_vars

C10_MarkedWithAttemptsSeen ==
    /\ last_op.op = "mark_broken"
    /\ health_status[last_op.id].state = "Broken"
    /\ health_status[last_op.id].repair_attempts >= 1
    /\ \E o \in DOMAIN health_status : o # last_op.id

(***************************************************************************)
(* Properties of the scan task (SpecScan)                                  *)
(***************************************************************************)
\* the repair manager marks id as hidden
Hidden(hm, id) == HasEntry(hm, id) /\ hm[id].state \in {"Broken", "Repairing", "Failed"}

\* the step is the swap of update_vfs
SwapStep == scan.pc = "swap" /\ scan'.pc # "swap"

\* the step is the end of a scan cycle whose torrent list was fetched
CycleEnd == scan.pc = "purge" /\ scan'.pc = "sleep"

\* C12 (as claimed): no tree is installed that, at the instant of the swap,
\* contains a stream file of a torrent the repair manager marks as hidden.
C12_NoHiddenAtSwap ==
    [][SwapStep => \A id \in vfs' : ~Hidden(health_status, id)]_vars

\* C12 (amended): a torrent is put into the tree being built only if the
\* repair manager did not mark it as hidden when update_vfs asked about it,
\* a torrent found hidden then is left out, and the swap installs exactly
\* the torrents kept; a torrent that becomes hidden between that check and
\* the swap is installed all the same.
C12_InstalledWereShownAtFilter ==
    [][/\ \A id \in TorrentIds :
             (id \in SeqRange(scan'.filtered) /\ id \notin SeqRange(scan.filtered))
             => /\ scan.pc = "filter"
                /\ id = Head(scan.todo)
                /\ ~Hidden(health_status, id)
       /\ (scan.pc = "filter" /\ scan.todo # << >> /\ Hidden(health_status, Head(scan.todo)))
          => scan'.filtered = scan.filtered
       /\ SwapStep => vfs' = SeqRange(scan.filtered)]_vars

C12_HiddenLeftOut ==
    /\ scan.pc = "swap"
    /\ scan.filtered # << >>
    /\ \E id \in SeqRange(scan.current_data) :
          Hidden(health_status, id) /\ id \notin SeqRange(scan.filtered)

(***************************************************************************)
(* Properties of the path lookup (SpecLookup)                              *)
(***************************************************************************)
\* the node a path leads to in one tree
RECURSIVE Walk(_, _, _)
Walk(tree, node, rest) ==
    IF rest = << >> THEN node
    ELSE LET next == Child(tree, node, Head(rest))
         IN  IF next = NoNode THEN NoNode ELSE Walk(tree, next, Tail(rest))

\* C13: a path lookup that runs concurrently with a swap resolves all of its
\* components against one tree, the one before or the one after the swap,
\* and returns what the path leads to in that tree; the tree changes only by
\* a swap of the scan task, which installs the tree that task built last.
C13_LookupSeesOneTree ==
    /\ [](/\ Cardinality(lookup.trees) <= 1
          /\ lookup.pc = "done" =>
                \A t \in lookup.trees : lookup.current = Walk(t, RootNode, lookup.path))
    /\ [][vfs' # vfs => SwapStep /\ vfs' = SeqRange(scan.filtered)]_vars

C13_SwapWaitsForLookup ==
    /\ lookup.pc = "walk"
    /\ lookup.trees = {vfs}
    /\ scan.pc = "swap"
    /\ SeqRange(scan.filtered) # vfs

\* C14: when a torrent id has left the account, and so is no longer in the
\* fetched torrent list, its health entry is gone from the health map by the
\* end of that scan cycle.
C14_HealthEntryPurged ==
    [][CycleEnd => \A id \in DOMAIN health_status' :
                      id \in scan.torrents \/ id \in remote']_vars

\* C15: after a scan cycle whose torrent list was fetched, neither the
\* in-memory seen map nor the persistent store holds an identification for
\* a torrent id that has left the account and is absent from that list.
C15_NoCacheForUnlisted ==
    [][CycleEnd => \A id \in seen_torrents' \cup db' :
                      id \in scan.torrents \/ id \in remote']_vars

\* C16: a scan cycle in which a swap changed the tree has, by its end, sent
\* (or begun to send) the change notification for that swap, an endpoint
\* being configured.
C16_NotifiedAfterSwap ==
    [][(CycleEnd /\ scan.changed) => notify'.pc # "idle"]_vars

\* C18: after any sequence of record_throttle and record_success calls on a
\* new limiter interval_ms lies in [100, 2000], and one record_success lowers
\* it by at most 10.
C18_IntervalWithinBounds ==
    /\ [](interval_ms >= 100 /\ interval_ms <= 2000)
    /\ [][LimRecordSuccess => (interval_ms' <= interval_ms
                                /\ interval_ms' >= interval_ms - 10)]_vars

\* C18 (witness): throttled up to the cap and recovered one step below it
C18_RecoveredFromCap == interval_ms = 1990

\* C19 (as claimed): every record_throttle call leaves interval_ms at least
\* twice the value it had before the call.
C19_ThrottleDoubles ==
    [][(\E ra \in RetryAfterValues : LimRecordThrottle(ra))
          => interval_ms' >= 2 * interval_ms]_vars

\* C19 (amended): every record_throttle call leaves interval_ms at exactly
\* twice its value, or at 2000 when twice its value would be more than
\* 2000; it never lowers it.
C19_ThrottleDoublesUpToCap ==
    [][(\E ra \in RetryAfterValues : LimRecordThrottle(ra))
          => /\ interval_ms' = IF 2 * interval_ms <= 2000 THEN 2 * interval_ms ELSE 2000
             /\ interval_ms' >= interval_ms]_vars

\* C19 (witness): a throttle has hit the cap from a value above half of it
\* and a retry deadline was set
C19_CappedThrottle == interval_ms = 2000 /\ next_allowed = 300000

\* the step is the answer to a request whose status is in the terminal set of
\* the call site: 404 for torrent detail and delete, 503 for unrestrict
TerminalAnswer ==
    \E r \in Responses, lat \in Latencies :
       /\ \/ f_site \in {"get_torrent_info", "delete_torrent"} /\ r.status = 404
          \/ f_site = "unrestrict_link" /\ r.status = 503
       /\ FetchSendResponse(r.status, r.retry_after, r.body, lat, r.jitter)

\* C20: an answer whose status is in the call site's terminal set ends the
\* call with that error after this one attempt: the loop does not go on to
\* another request, and neither a throttle nor a success is recorded in the
\* rate limiter (the interval is unchanged and next_allowed is not pushed).
C20_TerminalStatusEndsCall ==
    [][TerminalAnswer =>
          /\ f_pc' = "done"
          /\ f_result' = "Err"
          /\ f_err' = "Status"
          /\ f_requests' = f_requests + 1
          /\ f_tokens' = f_tokens
          /\ attempt' = attempt
          /\ interval_ms' = interval_ms
          /\ next_allowed' <= next_allowed]_vars

\* C20 (witness): a torrent-detail call ended by a 404 on its third attempt,
\* after two throttles
C20_TerminalOnThirdAttempt ==
    /\ f_pc = "done"
    /\ f_site = "get_torrent_info"
    /\ f_result = "Err"
    /\ f_err = "Status"
    /\ f_requests = 3
    /\ interval_ms = 400

\* the POST came back with a connect error or with a 503 response
ConnectErrorOr503(res) ==
    \/ res.err = "connect"
    \/ res.err = "None" /\ res.status = 503

\* C17: notify_changes sends no request for an empty change list; otherwise
\* it sends at most 10 POSTs, every POST but the last came back with a
\* connect error or a 503 (so it stopped at the first success, other status
\* or other error), and it goes on sending only while all came back so.
C17_NotifyBounded ==
    /\ notify.changes = 0 => notify.outcomes = << >>
    /\ Len(notify.outcomes) <= 10
    /\ \A i \in 1..(Len(notify.outcomes) - 1) : ConnectErrorOr503(notify.outcomes[i])
    /\ notify.pc = "send" =>
          \A i \in 1..Len(notify.outcomes) : ConnectErrorOr503(notify.outcomes[i])
    /\ (notify.pc = "done" /\ notify.changes > 0) =>
          /\ Len(notify.outcomes) >= 1
          /\ \/ Len(notify.outcomes) = 10
             \/ ~ConnectErrorOr503(notify.outcomes[Len(notify.outcomes)])

\* C17 (witness): a call gave up after ten POSTs, the last one answered 503
C17_GaveUpAfterTen ==
    /\ notify.pc = "done"
    /\ Len(notify.outcomes) = 10
    /\ notify.outcomes[10] = [err |-> "None", status |-> 503]

\* the step is reader r returning from the failure path of a read
ReadFails(r) == reads[r].pc = "mark" /\ reads'[r].pc = "done"

\* the step is reader r starting a read of a stream file of torrent id
ReadStarts(r, id) ==
    /\ reads[r].pc \in {"idle", "done"}
    /\ reads'[r] # reads[r]
    /\ reads'[r].id = id

RECURSIVE Flatten(_)
Flatten(pages) ==
    IF pages = << >> THEN << >> ELSE Head(pages) \o Flatten(Tail(pages))

FetchFailed == scan.pc = "sleep" /\ ScanFetch("Err", {}, {}, {})

\* C22: when the torrent list fetch fails, the scan cycle ends at once, with
\* no swap, and leaves the installed tree, the seen map and the store as
\* they were; a lookup still resolves against the tree installed last.
C22_FailedFetchKeepsTree ==
    /\ [][FetchFailed => /\ vfs' = vfs
                         /\ seen_torrents' = seen_torrents
                         /\ db' = db
                         /\ scan'.pc = "sleep"
                         /\ ~scan'.fetched]_vars
    /\ []((lookup.pc = "done" /\ ~scan.fetched /\ scan.pc = "sleep")
            => \A t \in lookup.trees : lookup.current = Walk(t, RootNode, lookup.path))

\* C22 (witness): after a cycle installed torrent 1 a fetch failed, and a
\* lookup then found the torrent's stream file in the tree still installed
C22_LookupAfterFailedFetch ==
    /\ scan = [IdleScan EXCEPT !.identified = {1}]
    /\ vfs = {1}
    /\ seen_torrents = {1}
    /\ lookup.pc = "done"
    /\ lookup.path = <<"Movies", "T1", "video.strm">>
    /\ lookup.trees = {{1}}
    /\ lookup.current.kind = "file"

\* the step is a call of evict_expired_cache, made on its own or by
\* unrestrict_link when the cache is over its size limit
EvictStep ==
    \/ \E res \in evict_results(cache) : CacheEvict(res)
    \/ /\ Cardinality(DOMAIN cache) > MaxCacheSize
       /\ \E res \in evict_results(cache) : CacheCheckSize(res)

\* the entries younger than the one-hour TTL
YoungerThanTtl(c) == {l \in DOMAIN c : c[l] < 3600000}

\* C23: after evict_expired_cache returns, the cache holds no entry whose
\* age is at least the one-hour TTL and no entry it did not hold before;
\* when the younger entries fit in the size limit all of them are kept,
\* otherwise as many as the limit are kept and no dropped one is younger
\* than a kept one.
C23_EvictDropsExpiredOnly ==
    [][EvictStep =>
          /\ \A l \in DOMAIN cache' :
                /\ cache'[l] < 3600000
                /\ l \in DOMAIN cache
                /\ cache'[l] = cache[l]
          /\ Cardinality(YoungerThanTtl(cache)) <= MaxCacheSize
                => DOMAIN cache' = YoungerThanTtl(cache)
          /\ Cardinality(YoungerThanTtl(cache)) > MaxCacheSize
                => /\ Cardinality(DOMAIN cache') = MaxCacheSize
                   /\ \A d \in YoungerThanTtl(cache) \ DOMAIN cache', k \in DOMAIN cache' :
                         cache[d] >= cache[k]]_vars

\* C23 (witness): an eviction dropped an expired entry and, the cache still
\* being over its limit, the oldest of the younger ones
C23_EvictedExpiredAndOldest ==
    /\ cache_op.op = "evict"
    /\ cache_op.unchecked = 1
    /\ cache_op.expired >= 1
    /\ cache_op.oldest >= 1
    /\ Cardinality(DOMAIN cache) = MaxCacheSize
    /\ \E l \in DOMAIN cache : cache[l] > 0

\* C24: for every stream file, the length its metadata reports equals the
\* number of bytes a complete read from position 0 returns, and both equal
\* the length of the payload stored at build time, 1024 bytes, whatever
\* the length of the link or of the resolved URL.
C24_MetadataLenIsReadLen ==
    (pure.fn = "open" /\ pure.eof /\ pure.meta_len >= 0)
        => /\ pure.meta_len = pure.total
           /\ pure.total = content_len(pure.payload)
           /\ content_len(pure.payload) = 1024

\* the first n components of a path
Prefix(path, n) == SubSeq(path, 1, n)

\* some component of the path is missing from its parent directory
MissingComponent(tree, path) ==
    \E i \in 1..Len(path) :
        /\ IsDirectory(Walk(tree, RootNode, Prefix(path, i - 1)))
        /\ Walk(tree, RootNode, Prefix(path, i)) = NoNode

\* a component before the last one resolves to a file
FileBeforeLast(tree, path) ==
    \E i \in 1..(Len(path) - 1) :
        Walk(tree, RootNode, Prefix(path, i)).kind \in {"file", "virtual"}

\* C25: a path lookup returns not-found when some component is missing from
\* its parent directory, and returns forbidden when a component before the
\* last one resolves to a stream file or a virtual file instead of a
\* directory; opening a directory returns forbidden.
C25_NotFoundOrForbidden ==
    dav.pc = "done" /\ dav.op \in DavOps =>
        \A tree \in lookup.trees :
            /\ MissingComponent(tree, dav.path) => dav.ret = "NotFound"
            /\ FileBeforeLast(tree, dav.path) => dav.ret = "Forbidden"
            /\ (dav.op = "open"
                  /\ Walk(tree, RootNode, dav.path).kind \in {"root", "dir", "title"})
                 => dav.ret = "Forbidden"

\* the step belongs to an operation of the adapter or of a file handle
AdapterStep ==
    \/ \E op \in DavOps, path \in DavPaths, write \in BOOLEAN : DavStart(op, path, write)
    \/ DavStep
    \/ \E op \in FileOps, outcome \in {"Ok", "Err"} : DavFileOp(op, outcome)

\* the operation that returned was an attempt to write: an open for
\* writing that failed, or a write on the handle an open returned
WriteAttemptFailed ==
    /\ dav.pc = "done"
    /\ \/ dav.op = "open" /\ dav.write /\ dav.ret # "Ok"
       \/ dav.op \in {"write_buf", "write_bytes"}

\* C26: no operation of the WebDAV adapter (open, read, seek, read_dir,
\* metadata, or a write attempt) changes the VFS tree, and every write
\* attempt fails with forbidden.
C26_AdapterReadOnly ==
    /\ [][AdapterStep => vfs' = vfs]_vars
    /\ [](WriteAttemptFailed => dav.ret = "Forbidden")

\* C27: every tree DebridVfs::new or DebridVfs::build produces, hence every
\* tree installed after any sequence of scans, has a root directory whose
\* children are exactly the two directories Movies and Shows, also for
\* empty input.
C27_RootIsMoviesAndShows ==
    pure.fn \in {"build", "new"} /\ pure.done =>
        /\ pure.root.kind = "Directory"
        /\ DOMAIN pure.root.children = {DirName("Movies"), DirName("Shows")}
        /\ \A name \in DOMAIN pure.root.children :
              pure.root.children[name].kind = "Directory"

\* C27 (witness): build was given no torrent and returned a tree
C27_BuiltFromEmptyInput ==
    /\ pure.fn = "build" /\ pure.done
    /\ pure.torrents = << >>
    /\ DOMAIN pure.root.children = {DirName("Movies"), DirName("Shows")}

\* the movie groups of the list build was given, by their metadata
MovieGroups ==
    {pure.torrents[i][2] : i \in 1..Len(pure.torrents)}
        \cap {m \in Metadatas : m.media_type = "Movie"}

\* the places of a group's torrents in the list
GroupPlaces(m) == {i \in 1..Len(pure.torrents) : pure.torrents[i][2] = m}
GroupIds(m) == {pure.torrents[i][1].id : i \in GroupPlaces(m)}

\* the places of the torrents with the largest bytes of a group
LargestPlaces(m) ==
    {i \in GroupPlaces(m) :
        \A j \in GroupPlaces(m) : pure.torrents[j][1].bytes <= pure.torrents[i][1].bytes}

\* the first torrent, in the order of the list, among the largest
FirstLargest(m) ==
    pure.torrents[CHOOSE i \in LargestPlaces(m) : \A j \in LargestPlaces(m) : i <= j][1]

\* the torrent has a selected video file with a link at its place
HasLinkedVideo(t) ==
    \E i \in 1..Len(t.files) :
        /\ t.files[i].selected = 1
        /\ t.files[i].path.ext \in VIDEO_EXTENSIONS
        /\ t.files[i].path.stem # "Movie.Sample"
        /\ Cardinality({j \in 1..i : t.files[j].selected = 1}) <= Len(t.links)

MoviesDir == pure.root.children[DirName("Movies")].children

\* the folders under Movies that carry the movie.nfo of the group
GroupFolders(m) ==
    {f \in DOMAIN MoviesDir :
        /\ Name("movie", 0, ".nfo") \in DOMAIN MoviesDir[f].children
        /\ MoviesDir[f].children[Name("movie", 0, ".nfo")].content
              = <<"movie", m.title, m.year, m.external_id>>}

\* the torrents the stream files of a folder come from
FolderOrigins(f) ==
    {MoviesDir[f].children[n].rd_torrent_id :
        n \in {x \in DOMAIN MoviesDir[f].children : MoviesDir[f].children[x].kind = "StrmFile"}}

\* another movie group that gets the same folder name
SharesFolderName(m) ==
    \E o \in MovieGroups \ {m} :
        /\ sanitize_filename(o.title) = sanitize_filename(m.title)
        /\ o.external_id = m.external_id
        /\ m.external_id # "None"

\* C28 (as stated): for a group of torrents with equal MediaMetadata of type
\* Movie, build emits a single folder whose stream files all come from the
\* torrent with the largest bytes in the group; no file of a smaller
\* torrent of the group is emitted.
C28_SingleFolderOfLargest ==
    pure.fn = "build" /\ pure.done =>
        \A m \in MovieGroups :
            /\ Cardinality(GroupFolders(m)) = 1
            /\ \A f \in GroupFolders(m) :
                  FolderOrigins(f) \subseteq {pure.torrents[i][1].id : i \in LargestPlaces(m)}
            /\ \A f \in DOMAIN MoviesDir :
                  FolderOrigins(f) \cap GroupIds(m)
                      \subseteq {pure.torrents[i][1].id : i \in LargestPlaces(m)}

\* C28 (amended): for a group of torrents with equal MediaMetadata of type
\* Movie, build emits at most one folder; its stream files all come from
\* one torrent, the first in the order given among those with the largest
\* bytes of the group, and no file of another torrent of the group is
\* emitted under Movies.  No folder is emitted when that torrent has no
\* selected video file with a link, whatever the smaller torrents hold;
\* one is emitted when it has one and no other movie group is given the
\* same folder name.
C28_AtMostOneFolderOfFirstLargest ==
    pure.fn = "build" /\ pure.done =>
        \A m \in MovieGroups :
            /\ Cardinality(GroupFolders(m)) <= 1
            /\ \A f \in GroupFolders(m) : FolderOrigins(f) = {FirstLargest(m).id}
            /\ \A f \in DOMAIN MoviesDir :
                  FolderOrigins(f) \cap GroupIds(m) \subseteq {FirstLargest(m).id}
            /\ ~HasLinkedVideo(FirstLargest(m)) => GroupFolders(m) = {}
            /\ HasLinkedVideo(FirstLargest(m)) /\ ~SharesFolderName(m)
                  => Cardinality(GroupFolders(m)) = 1

\* C28 (witness): of two torrents of one movie the second is the larger,
\* both hold a video file, and the folder holds the file of the second
C28_LargerOfTwoEmitted ==
    /\ pure.fn = "build" /\ pure.done
    /\ Len(pure.torrents) = 2
    /\ pure.torrents[1][2] = pure.torrents[2][2]
    /\ pure.torrents[1][2].media_type = "Movie"
    /\ pure.torrents[1][1].bytes < pure.torrents[2][1].bytes
    /\ HasLinkedVideo(pure.torrents[1][1])
    /\ \E f \in DOMAIN MoviesDir : FolderOrigins(f) = {2}

\* C29: for every tree T, diff_trees(T, T) returns an empty list of changes.
C29_DiffOfEqualTreesEmpty ==
    pure.fn = "diff_trees" /\ pure.done /\ pure.old = pure.new
        => pure.changes = << >>

\* C29 (witness): a tree with a stream file in a folder of a directory of
\* the root was compared with itself
C29_DeepTreeAgainstItself ==
    /\ pure.fn = "diff_trees" /\ pure.done /\ pure.old = pure.new
    /\ pure.changes = << >>
    /\ pure.old.kind = "Directory"
    /\ \E a \in DOMAIN pure.old.children :
          /\ pure.old.children[a].kind = "Directory"
          /\ \E b \in DOMAIN pure.old.children[a].children :
                /\ pure.old.children[a].children[b].kind = "Directory"
                /\ \E c \in DOMAIN pure.old.children[a].children[b].children :
                      pure.old.children[a].children[b].children[c].kind = "StrmFile"

\* the selected video files of the list the guess was made for
SelectedVideos ==
    {i \in 1..Len(pure.files) :
        /\ pure.files[i].selected = 1
        /\ pure.files[i].path.ext \in VIDEO_EXTENSIONS}

\* C30: a torrent is guessed to be a show exactly when some selected video
\* file's basename matches the season/episode pattern or when it has at
\* least 2 selected video files; unselected files and non-video files do
\* not influence the guess.
C30_GuessFromSelectedVideos ==
    pure.fn = "is_show_guess" /\ pure.done =>
        (pure.ret <=> \/ \E i \in SelectedVideos : pure.files[i].path.stem = "S01E01"
                      \/ Cardinality(SelectedVideos) >= 2)

(***************************************************************************)
(* Properties of concurrent repairs and health checks (SpecRace,           *)
(* SpecRepair)                                                             *)
(***************************************************************************)
\* task t is inside repair_torrent(id), past the locked section that set the
\* entry to Repairing and before the write of the final state
InRepair(t, id) ==
    repair[t].id = id /\ repair[t].pc \in {"add_magnet", "get_info", "select", "delete"}

\* C31: for a given torrent id, at most one repair_torrent execution is
\* between setting the state to Repairing and writing its final state.
C31_OneRepairPerId ==
    \A id \in TorrentIds : Cardinality({t \in RepairTasks : InRepair(t, id)}) <= 1

\* C32: an entry that is Failed stays Failed for as long as it exists.
C32_FailedStaysFailed ==
    [][\A id \in TorrentIds :
          (/\ HasEntry(health_status, id)
           /\ health_status[id].state = "Failed"
           /\ HasEntry(health_status', id))
          => health_status'[id].state = "Failed"]_vars

\* the step is a return of repair_torrent with an error string
ReturnsError ==
    last_op'.op = "repair_torrent" /\ last_op'.ret \notin {"Ok", "Panic"}

\* C33: the old torrent is deleted only by a repair whose add magnet, fetch
\* of the new detail and file selection have all succeeded (three remote
\* calls before the delete); a repair that returns an error has issued at
\* most those three calls, does not return from the delete step and leaves
\* the old torrent in the account.
C33_DeleteOnlyAfterSelect ==
    [][/\ \A id \in remote \ remote' :
             \E t \in RepairTasks :
                /\ repair[t].id = id /\ Leaves(t, "delete")
                /\ repair[t].calls = 3
                /\ repair[t].new_id \in remote
                /\ repair[t].file_ids # << >>
                /\ last_op'.ret = "Ok"
       /\ \A t \in RepairTasks :
             repair[t].pc = "delete" => repair[t].calls = 3
       /\ ReturnsError =>
             /\ last_op'.at # "delete"
             /\ last_op'.calls <= 3
             /\ remote' = remote]_vars

C33_SelectFailedOldKept ==
    /\ last_op.op = "repair_torrent" /\ last_op.at = "select"
    /\ last_op.ret = "Failed to select files" /\ last_op.calls = 3
    /\ last_op.id \in remote

\* C34: a repair_torrent call that returns an error leaves no replacement
\* torrent behind in the account, and the old torrent where it was.
C34_FailedRepairLeavesAccount ==
    [][\A t \in RepairTasks :
          (repair[t].pc # "idle" /\ repair'[t].pc = "idle" /\ ReturnsError)
          => /\ repair[t].new_id \notin remote'
             /\ (repair[t].id \in remote) = (repair[t].id \in remote')]_vars

\* C35: check_torrent_health writes its verdict only to an entry that is
\* still Checking.
C35_VerdictOnlyOverChecking ==
    [][(hc.pc = "probe" /\ hc'.pc = "read") =>
          LET id == Head(hc.torrents)
          IN  (HasEntry(health_status, id) /\ health_status[id].state # "Checking")
              => health_status'[id].state = health_status[id].state]_vars

(***************************************************************************)
(* Properties of concurrent wait_for_token callers (SpecTokens)            *)
(***************************************************************************)
\* C36: no two callers sleep toward the same instant, and a reservation's
\* deadline lies at least the interval that was in force at the previous
\* reservation, itself at least 100 ms, after the previous deadline.
C36_DeadlinesSpaced ==
    /\ [](\A i, j \in 1..Len(tokens.waiting) :
             (i < j /\ tokens.waiting[j] > 0) => tokens.waiting[i] < tokens.waiting[j])
    /\ [][(TokReserve /\ tokens.last.reserved) =>
             /\ tokens.last.interval >= MIN_INTERVAL_MS
             /\ tokens'.last.deadline - tokens.last.deadline >= tokens.last.interval]_vars

\* C36 (witness): two callers sleep at once, the later reserved while the
\* interval was no longer the one of the earlier reservation
C36_TwoCallersWaiting ==
    /\ Len(tokens.waiting) = 2
    /\ tokens.waiting[1] > 0
    /\ tokens.waiting[2] - tokens.waiting[1] > tokens.last.interval

(***************************************************************************)
(* Properties of the scan task across cycles (SpecScan)                    *)
(***************************************************************************)
\* the step is the top of a cycle whose get_torrents returned every torrent
\* of the account
CompleteFetch ==
    scan.pc = "sleep" /\ scan'.fetched /\ scan'.pc # "sleep" /\ scan'.torrents = remote

\* ids identified in an earlier cycle that the previous cycle's listing left
\* out although they were in the account: that listing was truncated
LeftOutBefore ==
    IF scan.fetched THEN (scan.identified \cap remote) \ scan.torrents ELSE {}

\* C37: the cycle that receives the complete list after a truncated one
\* takes every torrent identified before from the store, and sends none of
\* them to the identifier again.
C37_ReconciledFromStore ==
    [][CompleteFetch =>
          \A id \in LeftOutBefore : id \notin SeqRange(scan'.to_identify)]_vars

\* C38: a newly identified torrent is added to current_data only once its
\* entry is in the persistent store.
C38_StoredBeforeListed ==
    [][(scan.pc = "identify" /\ Len(scan'.current_data) > Len(scan.current_data))
          => scan'.current_data[Len(scan'.current_data)] \in db']_vars

(***************************************************************************)
(* Properties of build: links and folder names (SpecBuild)                 *)
(***************************************************************************)
ShowsDir == pure.root.children[DirName("Shows")].children

\* the stream files of a directory, each with its name
StrmIn(children) ==
    {[name |-> n, node |-> children[n]] :
        n \in {x \in DOMAIN children : children[x].kind = "StrmFile"}}

\* the stream files of the tree: Movies/<folder>/<file> and
\* Shows/<folder>/<season>/<file>
MovieStrms == UNION {StrmIn(MoviesDir[f].children) : f \in DOMAIN MoviesDir}
ShowStrms ==
    UNION {UNION {StrmIn(ShowsDir[f].children[x].children) :
                     x \in {y \in DOMAIN ShowsDir[f].children :
                               ShowsDir[f].children[y].kind = "Directory"}} :
              f \in DOMAIN ShowsDir}

\* the rank of file i of a torrent among its selected files, from 1
SelectedRank(t, i) == Cardinality({j \in 1..i : t.files[j].selected = 1})

\* the places of the selected video files whose rank has a link
LinkedVideos(t) ==
    {i \in 1..Len(t.files) :
        /\ t.files[i].selected = 1
        /\ t.files[i].path.ext \in VIDEO_EXTENSIONS
        /\ t.files[i].path.stem # "Movie.Sample"
        /\ SelectedRank(t, i) <= Len(t.links)}

\* the stream file stands for a selected video file of its torrent and
\* carries the link at that file's rank
PairedByRank(s) ==
    LET t == pure.torrents[s.node.rd_torrent_id][1]
    IN  \E i \in LinkedVideos(t) :
           /\ s.node.rd_link = t.links[SelectedRank(t, i)]
           /\ s.name.base = t.files[i].path.stem
           /\ s.name.suffix = ".strm"

AllGroups == {pure.torrents[i][2] : i \in 1..Len(pure.torrents)}

\* the directory a group's folder goes to and the name of its nfo file
GroupDir(m) == IF m.media_type = "Movie" THEN MoviesDir ELSE ShowsDir
NfoOf(m) == IF m.media_type = "Movie" THEN Name("movie", 0, ".nfo")
            ELSE Name("tvshow", 0, ".nfo")

\* the folders that carry the nfo file of the group
FoldersOf(m) ==
    {f \in DOMAIN GroupDir(m) :
        /\ NfoOf(m) \in DOMAIN GroupDir(m)[f].children
        /\ GroupDir(m)[f].children[NfoOf(m)].content
              = <<IF m.media_type = "Movie" THEN "movie" ELSE "tvshow",
                  m.title, m.year, m.external_id>>}

\* build emits a video file for the group: for a movie from the first of
\* its largest torrents, for a show from any of its torrents
EmitsVideo(m) ==
    IF m.media_type = "Movie" THEN LinkedVideos(FirstLargest(m)) # {}
    ELSE \E i \in GroupPlaces(m) : LinkedVideos(pure.torrents[i][1]) # {}

\* C40: every metadata group for which a video file is emitted has its own
\* folder in the tree, under Movies or under Shows; no group's folder is
\* replaced by the folder of another group.
C40_OwnFolderPerGroup ==
    (pure.fn = "build" /\ pure.done) =>
        \A m \in AllGroups : EmitsVideo(m) => Cardinality(FoldersOf(m)) = 1

====
